---- MODULE Spec2Model ----
(***************************************************************************)
(* tgate: the request-observing proxy core (internal/proxy/server.go) and  *)
(* its statistics tracker (internal/stats/tracker.go).                     *)
(*                                                                         *)
(* One Server is constructed by NewServer, wired with listeners, and then  *)
(* serves requests: every request is one ServeHTTP invocation running on   *)
(* its own goroutine.  ServeHTTP is cut into steps at the points where it  *)
(* touches state shared between goroutines (the atomic request counter,    *)
(* the tracker's mutex, the request-log mutex, the listener calls), so     *)
(* that every interleaving the Go scheduler can produce is a behaviour.    *)
(***************************************************************************)
EXTENDS Integers, Sequences, FiniteSets, TLC

\* ------------------------------------------------------------------ bounds
MaxRequests == 2
MaxListeners == 2
MaxClock == 1
MaxRuns == 2
\* a Tracker used on its own: samples added, |open gauge|, Reset calls, results kept
MaxSamples == 3
MaxOpen == 1
MaxResets == 1
MaxReads == 2
\* the request log as slices: records captured, snapshots handed out, edits of
\* the snapshots by their holders
MaxCaptures == 4
MaxSnaps == 2
MaxEdits == 2
\* calls a handler makes on its response writer
MaxCalls == 3
\* calls made on the tailscale Client
MaxGwCalls == 2
\* WaitForServerReady: the longest timeout and the longest a dial takes, in
\* periods of its ticker
MaxTimeout == 3
MaxDial == 2
\* the TUI: log messages beyond the capacity of the history
MaxOverflow == 2

\* ------------------------------------------------------- program constants
\* maxLogs = 1000 // Default
DefaultMaxLogs == 1000
\* r.ContentLength < 10*1024*1024
BodyCapBytes == 10 * 1024 * 1024
\* len(t.ResponseTimes1m) > 60, len(t.ResponseTimes5m) > 300, len(t.Durations) > 1000
Cap1m == 60
Cap5m == 300
CapDurations == 1000
\* http.StatusOK
StatusOK == 200
\* time.Millisecond, in nanoseconds
Millisecond == 1000000

VARIABLES
  workload,    \* the traffic this run offers: [reqs, inputs]; fixed by Init
  config,      \* the Config handed to NewServer: [MaxLogs, Mode]
  serving,     \* FALSE while main() wires the server, TRUE once it listens
  now,         \* the latest reading of the clock (time.Now())
  maxLogsCap,  \* Server.maxLogsCap
  listeners,   \* Server.listeners: the registered callbacks, in order
  requestID,   \* Server.requestID, the atomic counter
  requestLog,  \* Server.requestLog
  stats,       \* the Tracker behind Server.stats
  req,         \* per ServeHTTP invocation: its position and its locals
  calls,       \* per listener: the records it has been invoked with, in order
  captured,    \* history: every record appended to requestLog, in order
  issued,      \* history: the ids handed out by nextRequestID, in order
  tk,          \* the callers of a Tracker used on its own: its mutex, the call
               \* in progress, and the history of samples fed and results read
  mem,         \* the request log as Go slices over backing arrays, with the
               \* slices GetRequestLogs has handed to its callers
  wr,          \* a LoggingResponseWriter in the hands of an arbitrary handler:
               \* the writer, the calls made on it, and the record built from it
  cli,         \* the command line, and what config.Parse made of it
  gw,          \* the Tailscale daemon: its serve configuration and capabilities
  gwlog,       \* the calls made on the tailscale Client, each with its result
  boot,        \* start-up and exit of the process on the local-Tailscale path
  lk,          \* the two locks of a Server, logMutex and the Tracker's mu, with
               \* the position of every goroutine that takes them
  maps,        \* the header maps of the records, and who holds which record
  probe,       \* a call of WaitForServerReady
  ui,          \* the TUI model
  al           \* the AccessLog middleware and the ids it has issued

vars == <<workload, config, serving, now, maxLogsCap, listeners, requestID,
          requestLog, stats, req, calls, captured, issued, tk, mem, wr,
          cli, gw, gwlog, boot, lk, maps, probe, ui, al>>

Reqs == 1..MaxRequests

\* ------------------------------------------------------------ sequences
RECURSIVE SumSeq(_)
SumSeq(s) == IF s = <<>> THEN 0 ELSE Head(s) + SumSeq(Tail(s))

Prefix(s, n) == SubSeq(s, 1, n)

\* s[1:] of a Go slice
DropFirst(s) == SubSeq(s, 2, Len(s))

\* the last n elements of s (all of s when it is shorter)
LastN(s, n) == IF Len(s) <= n THEN s ELSE SubSeq(s, Len(s) - n + 1, Len(s))

Range(s) == {s[i] : i \in DOMAIN s}

\* --------------------------------------------------------------- bodies
\* A byte sequence is written as a sequence of runs [b, n]: n copies of byte b.
\* Runs are one byte or half the capture cap long, so that a body of two long
\* runs is exactly 10 MiB.
Runs ==
  {[b |-> 97, n |-> 1], [b |-> 255, n |-> 1], [b |-> 97, n |-> BodyCapBytes \div 2]}
Bodies == UNION {[1..k -> Runs] : k \in 0..MaxRuns}

ByteLen(body) == SumSeq([i \in DOMAIN body |-> body[i].n])

\* A readable stream: yields data, then io.EOF (err = FALSE) or a read error.
Stream(data, err) == [data |-> data, err |-> err, nil |-> FALSE]
\* r.Body == nil
NilBody == [data |-> <<>>, err |-> FALSE, nil |-> TRUE]

\* The body stream the HTTP server hands to the handler for an input: the whole
\* body, or the runs before errAt followed by a read error.
OrigStream(in) ==
  IF ~in.hasBody THEN NilBody
  ELSE IF in.errAt < 0 THEN Stream(in.body, FALSE)
  ELSE Stream(Prefix(in.body, in.errAt), TRUE)

\* io.ReadAll(stream): everything the stream yields before EOF or its error
\* (the error is returned beside the data; ServeHTTP drops it).
ReadAll(stream) == stream.data

\* mutant of GoString: a conversion that replaces bytes that are not valid UTF-8
GoStringValidUTF8(bytes) ==
  [i \in 1..Len(bytes) |-> IF bytes[i].b > 127 THEN [bytes[i] EXCEPT !.b = 63] ELSE bytes[i]]

\* string(bodyBytes): a Go string holds the bytes of the slice, unchanged.
GoString(bytes) == [i \in 1..Len(bytes) |-> bytes[i]]

\* io.NopCloser(strings.NewReader(s)): a fresh stream over the bytes of s.
NewReader(s) == Stream([i \in 1..Len(s) |-> s[i]], FALSE)

\* mutant of ShouldCapture: the cap compared with <= instead of <
ShouldCaptureInclusive(rBody, contentLength) ==
  ~rBody.nil /\ contentLength <= BodyCapBytes

\* the test that guards the capture
ShouldCapture(rBody, contentLength) == ~rBody.nil /\ contentLength < BodyCapBytes

\* The capture block of ServeHTTP: <<bodyString, r.Body afterwards, bytes read>>.
CaptureBody(rBody, contentLength) ==
  IF ShouldCapture(rBody, contentLength)
  THEN LET bodyBytes == ReadAll(rBody)
           bodyString == GoString(bodyBytes)
       IN  [bodyString |-> bodyString, rBody |-> NewReader(bodyString),
            read |-> ByteLen(bodyBytes)]
  ELSE [bodyString |-> <<>>, rBody |-> rBody, read |-> 0]

\* -------------------------------------------------------------- headers
\* An http.Header with one value per name: a function from names to values.
EmptyHeader == [k \in {} |-> ""]
\* h.Set(k, v)
HeaderSet(h, k, v) == [x \in DOMAIN h \cup {k} |-> IF x = k THEN v ELSE h[x]]
\* h.Get(k): "" when the name is absent
HeaderGet(h, k) == IF k \in DOMAIN h THEN h[k] ELSE ""
\* len(h): the number of distinct names
HeaderLen(h) == Cardinality(DOMAIN h)

\* ------------------------------------------------ LoggingResponseWriter
\* The client's side of the connection: the status line sent (0: none yet) and
\* the body bytes accepted.  The first WriteHeader wins; a Write before any
\* WriteHeader sends 200.
NewClient == [status |-> 0, bytes |-> 0, headers |-> EmptyHeader]
ClientWriteHeader(c, code) == IF c.status = 0 THEN [c EXCEPT !.status = code] ELSE c
ClientWrite(c, n) == [ClientWriteHeader(c, StatusOK) EXCEPT !.bytes = @ + n]

NewLrw == [statusCode |-> 0, size |-> 0, client |-> NewClient]

LrwWriteHeader(lrw, code) ==
  [lrw EXCEPT !.statusCode = code, !.client = ClientWriteHeader(@, code)]

\* mutant of LrwWrite: the status is not defaulted by a Write
LrwWriteNoDefault(lrw, n) ==
  [lrw EXCEPT !.client = ClientWrite(@, n), !.size = @ + n]

\* Write(b), of which the underlying writer accepted n bytes
LrwWrite(lrw, n) ==
  [lrw EXCEPT !.statusCode = IF @ = 0 THEN StatusOK ELSE @,
              !.client = ClientWrite(@, n),
              !.size = @ + n]

\* the status and response size ServeHTTP puts in the record
RecordOf(lrw) == [StatusCode |-> lrw.statusCode, Size |-> lrw.size]
\* no record (yet)
NoRecord == [StatusCode |-> -1, Size |-> -1]
\* a fresh writer, nothing called on it
NewWr ==
  [lrw |-> NewLrw, accepted |-> <<>>, headerCalls |-> 0, pc |-> "handler",
   record |-> NoRecord]

\* w.Header().Set(k, v): the header map is the underlying writer's
LrwSetHeader(lrw, k, v) == [lrw EXCEPT !.client.headers = HeaderSet(@, k, v)]

\* ------------------------------------------------------------- handlers
\* mutant of MockResponse: content_type is added whenever the header is present
MockResponsePresence(in, body) ==
  LET base == [k \in {"status", "timestamp", "method", "path", "headers", "body_size"} |->
                 CASE k = "status" -> "received"
                   [] k = "timestamp" -> "RFC3339"
                   [] k = "method" -> in.method
                   [] k = "path" -> in.path
                   [] k = "headers" -> HeaderLen(in.header)
                   [] k = "body_size" -> ByteLen(body)]
      withQuery == IF in.rawQuery # "" THEN HeaderSet(base, "query", in.rawQuery) ELSE base
  IN  IF "Content-Type" \in DOMAIN in.header
      THEN HeaderSet(withQuery, "content_type", in.header["Content-Type"])
      ELSE withQuery

\* The JSON object handleMockRequest encodes, as a function from its keys to
\* their values; the two timestamps are written as the format they are in.
MockResponse(in, body) ==
  LET base == [k \in {"status", "timestamp", "method", "path", "headers", "body_size"} |->
                 CASE k = "status" -> "received"
                   [] k = "timestamp" -> "RFC3339"
                   [] k = "method" -> in.method
                   [] k = "path" -> in.path
                   [] k = "headers" -> HeaderLen(in.header)
                   [] k = "body_size" -> ByteLen(body)]
      withQuery == IF in.rawQuery # "" THEN HeaderSet(base, "query", in.rawQuery) ELSE base
      contentType == HeaderGet(in.header, "Content-Type")
  IN  IF contentType # "" THEN HeaderSet(withQuery, "content_type", contentType)
      ELSE withQuery

\* mutant of HandleMockRequest: the mode marker header is not set
HandleMockRequestNoMarker(lrw, in) ==
  LET h1 == LrwSetHeader(lrw, "Content-Type", "application/json")
      h3 == LrwSetHeader(h1, "X-TGate-Timestamp", "RFC3339")
  IN  LrwWrite(LrwWriteHeader(h3, StatusOK), in.respLen)

\* handleMockRequest: sets the three headers, WriteHeader(200), then encodes the
\* JSON acknowledgment (in.respLen bytes) onto the writer.
HandleMockRequest(lrw, in) ==
  LET h1 == LrwSetHeader(lrw, "Content-Type", "application/json")
      h2 == LrwSetHeader(h1, "X-TGate-Mode", "mock")
      h3 == LrwSetHeader(h2, "X-TGate-Timestamp", "RFC3339")
  IN  LrwWrite(LrwWriteHeader(h3, StatusOK), in.respLen)

\* mutant of ProxyServeHTTP: an unreachable backend leaves the client unanswered
ProxyServeHTTPNoErrorReply(lrw, in) ==
  CASE in.backend = "ok" -> LrwWrite(LrwWriteHeader(lrw, StatusOK), in.respLen)
    [] in.backend = "unreachable" -> lrw
    [] in.backend = "abort" -> LrwWrite(LrwWriteHeader(lrw, StatusOK), in.respLen)

\* s.proxy.ServeHTTP for the three things a backend can do: answer, be
\* unreachable (the reverse proxy's error handler answers 502 with no body), or
\* have the copy of its answer to the client aborted after the header was sent
\* (the reverse proxy then panics with http.ErrAbortHandler).
ProxyServeHTTP(lrw, in) ==
  CASE in.backend = "ok" -> LrwWrite(LrwWriteHeader(lrw, StatusOK), in.respLen)
    [] in.backend = "unreachable" -> LrwWriteHeader(lrw, 502)
    [] in.backend = "abort" -> LrwWrite(LrwWriteHeader(lrw, StatusOK), in.respLen)

\* What the handler read of the request body it was given: the reverse proxy
\* streams all of r.Body to a backend it reaches; the mock responder reads none
\* of it (it is handed bodyString).
NotRead == [data |-> <<>>, err |-> FALSE, nil |-> FALSE, unread |-> TRUE]
ProxyForward(in, rBody) == IF in.backend = "unreachable" THEN NotRead ELSE rBody

\* mutant of DispatchHandler: the handler is started and not waited for
DispatchHandlerDeferred(mode, lrw, in, rBody, bodyString) ==
  [lrw |-> lrw, fwd |-> NotRead, panic |-> FALSE, forwards |-> 0, sent |-> "none"]

\* switch s.mode: the writer afterwards, the body forwarded, and whether the
\* handler panicked
\* (forwards counts the calls of the reverse proxy, sent is the response body)
DispatchHandler(mode, lrw, in, rBody, bodyString) ==
  CASE mode = "mock" ->
         [lrw |-> HandleMockRequest(lrw, in), fwd |-> NotRead, panic |-> FALSE,
          forwards |-> 0, sent |-> MockResponse(in, bodyString)]
    [] mode = "proxy" ->
         [lrw |-> ProxyServeHTTP(lrw, in), fwd |-> ProxyForward(in, rBody),
          panic |-> in.backend = "abort", forwards |-> 1, sent |-> in.backend]

\* -------------------------------------------------------------- tracker
NewTracker ==
  [TotalConnections |-> 0, OpenConnections |-> 0, Durations |-> <<>>,
   ResponseTimes1m |-> <<>>, ResponseTimes5m |-> <<>>]

\* mutant of Window: a full window keeps its oldest samples and drops the new one
WindowKeepOldest(w, d, cap) == IF Len(w) >= cap THEN w ELSE Append(w, d)

\* append, then drop the oldest when over the cap
Window(w, d, cap) == LET a == Append(w, d) IN IF Len(a) > cap THEN DropFirst(a) ELSE a

\* mutant of TrackerAddRequest: the total is not counted
TrackerAddRequestNoCount(t, d) ==
  [t EXCEPT !.Durations = LastN(Append(@, d), CapDurations),
            !.ResponseTimes1m = Window(@, d, Cap1m),
            !.ResponseTimes5m = Window(@, d, Cap5m)]

TrackerAddRequest(t, d) ==
  [t EXCEPT !.TotalConnections = @ + 1,
            !.Durations = Window(@, d, CapDurations),
            !.ResponseTimes1m = Window(@, d, Cap1m),
            !.ResponseTimes5m = Window(@, d, Cap5m)]

\* mutant of TrackerIncrementOpen: the total is counted instead of the gauge
TrackerIncrementOpenTotal(t) == [t EXCEPT !.TotalConnections = @ + 1]
TrackerIncrementOpen(t) == [t EXCEPT !.OpenConnections = @ + 1]

\* mutant of TrackerDecrementOpen: the wrong counter is decremented
TrackerDecrementOpenWrongField(t) == [t EXCEPT !.TotalConnections = @ - 1]
TrackerDecrementOpen(t) == [t EXCEPT !.OpenConnections = @ - 1]

\* the opn result of Server.GetStats
GetStatsOpn == stats.OpenConnections

\* Reset: counters to zero, windows truncated to length 0
TrackerReset(t) ==
  [t EXCEPT !.TotalConnections = 0, !.OpenConnections = 0, !.Durations = <<>>,
            !.ResponseTimes1m = <<>>, !.ResponseTimes5m = <<>>]

\* AddRequest's critical section in three parts: the count and the overall
\* append; the two short windows; the trim of the overall window
AddRequestCount(t, d) ==
  [t EXCEPT !.TotalConnections = @ + 1, !.Durations = Append(@, d)]
AddRequestWindows(t, d) ==
  [t EXCEPT !.ResponseTimes1m = Window(@, d, Cap1m),
            !.ResponseTimes5m = Window(@, d, Cap5m)]
AddRequestTrim(t) ==
  [t EXCEPT !.Durations = IF Len(@) > CapDurations THEN DropFirst(@) ELSE @]

\* the tracker a NewTracker has become once AddRequest was called with each
\* sample of s in turn: every call counts one and appends to every window,
\* and a window over its cap loses its oldest sample
Fed(s) ==
  [TotalConnections |-> Len(s), OpenConnections |-> 0,
   Durations |-> LastN(s, CapDurations),
   ResponseTimes1m |-> LastN(s, Cap1m), ResponseTimes5m |-> LastN(s, Cap5m)]

\* float64(x) / float64(n) / float64(time.Millisecond), kept as an exact fraction
Ms(x, n) == [num |-> x, den |-> n * Millisecond]
\* the zero value of a float64 result that was never assigned
ZeroMs == Ms(0, 1)

\* `for _, d := range w { sum += d }`: s[lo] + ... + s[hi], added up by halves
RECURSIVE SumRange(_, _, _)
SumRange(s, lo, hi) ==
  IF lo > hi THEN 0
  ELSE IF lo = hi THEN s[lo]
  ELSE LET mid == (lo + hi) \div 2
       IN  SumRange(s, lo, mid) + SumRange(s, mid + 1, hi)

\* mutant of Average: the sum is not divided by the number of samples
AverageSumOnly(w) == IF Len(w) > 0 THEN Ms(SumRange(w, 1, Len(w)), 1) ELSE ZeroMs

\* the average GetStats computes over a window
Average(w) == IF Len(w) > 0 THEN Ms(SumRange(w, 1, Len(w)), Len(w)) ELSE ZeroMs

\* sort.Slice(sorted, less) with less = (sorted[i] < sorted[j]): ascending
\* order (an ascending sequence is its own sort; otherwise the last element is
\* inserted into the sort of the elements before it)
RECURSIVE SortAsc(_)
SortAsc(s) ==
  IF \A i \in 1..Len(s) - 1 : s[i] <= s[i + 1] THEN s
  ELSE LET front == SortAsc(SubSeq(s, 1, Len(s) - 1))
           x == s[Len(s)]
           k == Cardinality({i \in DOMAIN front : front[i] <= x})
       IN  SubSeq(front, 1, k) \o <<x>> \o SubSeq(front, k + 1, Len(front))

\* mutant of TrackerGetStats: nearest-rank percentiles, index ceil(n*p/100) - 1
TrackerGetStatsNearestRank(t) ==
  LET sorted == SortAsc(t.Durations)
      n == Len(sorted)
      p50Idx == (n * 50 + 99) \div 100 - 1
      p90Idx == (n * 90 + 99) \div 100 - 1
  IN  [ttl |-> t.TotalConnections, opn |-> t.OpenConnections,
       rt1 |-> Average(t.ResponseTimes1m), rt5 |-> Average(t.ResponseTimes5m),
       p50 |-> IF n > 0 /\ p50Idx < n THEN Ms(sorted[p50Idx + 1], 1) ELSE ZeroMs,
       p90 |-> IF n > 0 /\ p90Idx < n THEN Ms(sorted[p90Idx + 1], 1) ELSE ZeroMs]

\* GetStats: its six results
TrackerGetStats(t) ==
  LET sorted == SortAsc(t.Durations)
      n == Len(sorted)
      p50Idx == (n * 50) \div 100
      p90Idx == (n * 90) \div 100
  IN  [ttl |-> t.TotalConnections, opn |-> t.OpenConnections,
       rt1 |-> Average(t.ResponseTimes1m), rt5 |-> Average(t.ResponseTimes5m),
       p50 |-> IF n > 0 /\ p50Idx < n THEN Ms(sorted[p50Idx + 1], 1) ELSE ZeroMs,
       p90 |-> IF n > 0 /\ p90Idx < n THEN Ms(sorted[p90Idx + 1], 1) ELSE ZeroMs]

\* mutant of GetStatsAfter: the overall window itself is sorted
GetStatsAfterSortedInPlace(t) == [t EXCEPT !.Durations = SortAsc(@)]
\* the tracker as GetStats leaves it: `sorted` is a copy, nothing is assigned
GetStatsAfter(t) == t

\* Tracker.mu, a sync.RWMutex: one writer or any number of readers
NewMutex == [w |-> FALSE, r |-> 0]
\* mutant of CanRLock: GetStats reads without waiting for the writer
CanRLockAlways(mu) == TRUE
\* RLock is granted when no writer holds the mutex
CanRLock(mu) == ~mu.w
\* Lock is granted when nobody holds the mutex
CanLock(mu) == ~mu.w /\ mu.r = 0

\* the callers of a Tracker: nobody in a call, samples h already fed
NewHarness(p, h) ==
  [mu |-> NewMutex, add |-> "idle", d |-> 0, get |-> "idle", pattern |-> p,
   fed |-> h, added |-> 0, resets |-> 0, seen |-> <<>>]

\* ---------------------------------------------------------------- locks
\* A sync.RWMutex: w is the goroutine holding it for writing (0: none), r the
\* goroutines holding it for reading, q the goroutines blocked in Lock().  A
\* blocked Lock() keeps new readers out.
NewRWMutex == [w |-> 0, r |-> {}, q |-> {}]
\* Lock() is called: the caller waits
LockCall(m, p) == [m EXCEPT !.q = @ \cup {p}]
\* Lock() returns
LockGranted(m, p) == m.w = 0 /\ m.r = {} /\ p \in m.q
LockTake(m, p) == [m EXCEPT !.w = p, !.q = @ \ {p}]
\* Unlock()
Unlock(m, p) == [m EXCEPT !.w = IF @ = p THEN 0 ELSE @]
\* RLock() returns
RLockGranted(m) == m.w = 0 /\ m.q = {}
RLockTake(m, p) == [m EXCEPT !.r = @ \cup {p}]
\* RUnlock()
RUnlock(m, p) == [m EXCEPT !.r = @ \ {p}]
\* whether p holds m, for writing or for reading
Holds(m, p) == m.w = p \/ p \in m.r

\* mutant of CaptureUnlock: the unlock is deferred to the end of captureRequest
CaptureUnlockDeferred(m, p) == m
\* captureRequest: s.logMutex.Unlock(), before the listeners are called
CaptureUnlock(m, p) == Unlock(m, p)

\* no goroutine is at the locks
NoLocks == [logMutex |-> NewRWMutex, mu |-> NewRWMutex, pc |-> <<>>, reads |-> 0, resets |-> 0]

\* no record has been built
NoMaps == [heap |-> <<>>, log |-> <<>>, held |-> <<>>, built |-> <<>>, edits |-> 0]
\* WaitForServerReady has not been called
NoWait ==
  [pc |-> "none", t |-> 0, deadline |-> 0, tick |-> FALSE, up |-> FALSE,
   cancelled |-> FALSE, result |-> "", connected |-> FALSE, late |-> FALSE,
   polls |-> 0]
\* tui.NewModel(server): no lines, no request, the window size unknown.  cmd is
\* the command the last Update returned, last the message it was given, logMsgs
\* and requestMsgs the messages of either kind received so far, arrived the
\* record of the latest RequestMsg.
NewModel ==
  [pc |-> "run", ready |-> FALSE, appLogLines |-> <<>>, lastRequest |-> 0,
   width |-> 0, cmd |-> "tick", last |-> "", logMsgs |-> 0, requestMsgs |-> 0,
   arrived |-> 0]
\* no TUI
NoModel == [NewModel EXCEPT !.pc = "none"]
\* no AccessLog middleware
NoAccessLog == [callback |-> "nil", clock |-> 0, pc |-> <<>>, built |-> <<>>, delivered |-> <<>>]

\* --------------------------------------------------------------- slices
\* A Go slice is a window [off+1 .. off+len] of backing array a, which it may
\* grow into up to off+cap; arrays[a] is the backing array.
\* the elements a slice shows
View(arrays, sl) == [i \in 1..sl.len |-> arrays[sl.a][sl.off + i]]
\* an unwritten cell of a backing array (the zero model.RequestLog)
ZeroLog == -1
\* make([]T, n, c): a fresh array of c cells, the first n shown
MakeSlice(arrays, n, c) ==
  [arrays |-> Append(arrays, [i \in 1..c |-> ZeroLog]),
   sl |-> [a |-> Len(arrays) + 1, off |-> 0, len |-> n, cap |-> c]]
\* the capacity append gives a slice it has to move (doubling, at least one)
GrowCap(c) == IF c = 0 THEN 1 ELSE 2 * c
\* append(sl, x): written in place when there is room, else into a fresh,
\* larger array to which the shown elements are copied
AppendSlice(arrays, sl, x) ==
  IF sl.len < sl.cap
  THEN [arrays |-> [arrays EXCEPT ![sl.a][sl.off + sl.len + 1] = x],
        sl |-> [sl EXCEPT !.len = @ + 1]]
  ELSE LET m == MakeSlice(arrays, sl.len + 1, GrowCap(sl.cap))
       IN  [arrays |-> [m.arrays EXCEPT ![m.sl.a] =
                          [i \in 1..m.sl.cap |->
                             IF i <= sl.len THEN arrays[sl.a][sl.off + i]
                             ELSE IF i = sl.len + 1 THEN x ELSE ZeroLog]],
            sl |-> m.sl]
\* sl[1:]
SliceFrom1(sl) == [sl EXCEPT !.off = @ + 1, !.len = @ - 1, !.cap = @ - 1]
\* sl[k] = x (k counted from 1)
SetSlice(arrays, sl, k, x) == [arrays EXCEPT ![sl.a][sl.off + k] = x]
\* copy(sl[k:], sl[k+1:]); sl = sl[:len-1]: element k removed in place
RemoveAt(arrays, sl, k) ==
  [arrays |-> [arrays EXCEPT ![sl.a] =
                 [i \in DOMAIN @ |->
                    IF i >= sl.off + k /\ i < sl.off + sl.len THEN @[i + 1] ELSE @[i]]],
   sl |-> [sl EXCEPT !.len = @ - 1]]

\* captureRequest under logMutex, on the slice: append, then requestLog[1:]
\* when longer than maxLogsCap
CaptureSlice(arrays, sl, logEntry, cap) ==
  LET a == AppendSlice(arrays, sl, logEntry)
  IN  IF a.sl.len > cap THEN [arrays |-> a.arrays, sl |-> SliceFrom1(a.sl)] ELSE a

\* mutant of CopyOut: GetRequestLogs returns s.requestLog itself
CopyOutAlias(arrays, sl) == [arrays |-> arrays, sl |-> sl]

\* GetRequestLogs under the read lock: make([]RequestLog, len), then copy
CopyOut(arrays, sl) ==
  LET m == MakeSlice(arrays, sl.len, sl.len)
  IN  [arrays |-> [m.arrays EXCEPT ![m.sl.a] = View(arrays, sl)], sl |-> m.sl]

\* NewServer: requestLog is make([]model.RequestLog, 0); nothing handed out yet
NewMem ==
  LET m == MakeSlice(<<>>, 0, 0)
  IN  [arrays |-> m.arrays, log |-> m.sl, snaps |-> <<>>, expect |-> <<>>,
       taken |-> <<>>, at |-> <<>>, captures |-> 0, edits |-> 0]

\* ------------------------------------------------------------ command line
\* A command line: the positional port argument, if one was typed, and the
\* flags config.Parse looks at or hands on to the Tailscale setup.
PortArgs == {0, 8080}
ServePortArgs == {0, 443, 8443}
CommandLines ==
  {a \in [hasPort : BOOLEAN, port : PortArgs, mock : BOOLEAN, funnel : BOOLEAN,
          useHTTPS : BOOLEAN, servePort : ServePortArgs, noUI : BOOLEAN,
          version : BOOLEAN, cleanupServe : BOOLEAN] :
     ~a.hasPort => a.port = 0}

\* kong.Parse(&cli): an optional argument that was not typed leaves its zero
\* value in the struct
KongParse(a) ==
  [Port |-> IF a.hasPort THEN a.port ELSE 0, Funnel |-> a.funnel,
   ServePort |-> a.servePort, UseHTTPS |-> a.useHTTPS, NoUI |-> a.noUI,
   Version |-> a.version, Mock |-> a.mock, CleanupServe |-> a.cleanupServe]

\* mutant of ApplyAutoConfiguration: funnel does not switch HTTPS on
ApplyAutoConfigurationNoHTTPS(c) ==
  IF c.Mock /\ ~c.Funnel THEN [c EXCEPT !.Funnel = TRUE] ELSE c

\* (c *Config) applyAutoConfiguration
ApplyAutoConfiguration(c) ==
  LET c1 == IF c.Mock /\ ~c.Funnel
              THEN [c EXCEPT !.Funnel = TRUE, !.UseHTTPS = TRUE] ELSE c
  IN IF c1.Funnel THEN [c1 EXCEPT !.UseHTTPS = TRUE] ELSE c1

\* the nil *Config Parse returns with an error
NilConfig == [nil |-> TRUE]

\* config.Parse
Parse(a) ==
  LET c == KongParse(a)
  IN IF c.Version THEN [err |-> "", cfg |-> c]
     ELSE IF c.CleanupServe THEN [err |-> "", cfg |-> c]
     ELSE IF c.Mock /\ c.Port # 0
       THEN [err |-> "cannot specify both port and --mock flag", cfg |-> NilConfig]
     ELSE IF ~c.Mock /\ c.Port = 0
       THEN [err |-> "port argument is required", cfg |-> NilConfig]
     ELSE [err |-> "", cfg |-> ApplyAutoConfiguration(c)]

\* (c *Config) GetServePort
GetServePort(c) ==
  IF c.ServePort = 0 THEN (IF c.UseHTTPS THEN 443 ELSE 80) ELSE c.ServePort

\* (c *Config) GetSetPath, --set-path not given
GetSetPath(c) == "/"

\* the local port FindAvailableLocalPort gave the proxy server
ProxyPort == 49152
\* the lines of application log the TUI model keeps
AppLogCap == 1000
\* randomString: the letters and digits of its charset, and the characters of
\* the suffix of an id
CharsetLen == 36
SuffixLen == 6
NanosPerSecond == 1000000000

\* the tailscale.Config SetupLocalTailscaleQuiet builds from the configuration
TsConfigOf(c) ==
  [MountPath |-> GetSetPath(c), EnableFunnel |-> c.Funnel, UseHTTPS |-> c.UseHTTPS,
   ServePort |-> GetServePort(c), ProxyPort |-> ProxyPort]

\* no command line: the server was constructed directly
NoCommandLine == [args |-> <<>>, pc |-> "none", result |-> [err |-> "", cfg |-> NilConfig]]

\* ------------------------------------------------------ the Tailscale daemon
\* The serve configuration the daemon holds: web handlers per port and mount
\* point (target: who is proxied to), the TCP handler of each port (kind:
\* "http", "https", or "forward" for plain TCP forwarding) and the ports with
\* funnel on.  nil is the absent configuration GetServeConfig returns as nil.
NilSc == [nil |-> TRUE, web |-> {}, tcp |-> {}, funnel |-> {}]
EmptySc == [nil |-> FALSE, web |-> {}, tcp |-> {}, funnel |-> {}]

\* sc.SetWebHandler(h, dnsName, port, mount, useTLS)
SetWebHandler(sc, target, port, mount, useTLS) ==
  [sc EXCEPT
     !.web = {w \in @ : ~(w.port = port /\ w.mount = mount)}
               \cup {[port |-> port, mount |-> mount, target |-> target]},
     !.tcp = {t \in @ : t.port # port}
               \cup {[port |-> port, kind |-> IF useTLS THEN "https" ELSE "http"]}]

\* sc.TCP[port] = &ipn.TCPPortHandler{HTTPS: true}
SetTCPHTTPS(sc, port) ==
  [sc EXCEPT !.tcp = {t \in @ : t.port # port} \cup {[port |-> port, kind |-> "https"]}]

\* sc.SetFunnel(dnsName, port, true)
SetFunnel(sc, port) == [sc EXCEPT !.funnel = @ \cup {port}]

\* sc.IsTCPForwardingOnPort(port)
IsTCPForwardingOnPort(sc, port) ==
  \E t \in sc.tcp : t.port = port /\ t.kind = "forward"

\* the daemon: the configuration, whether the node has the HTTPS capability,
\* whether a certificate domain of the node is listed, and how many times a
\* serve configuration was applied
NewGateway(sc, https, cert) == [sc |-> sc, https |-> https, cert |-> cert, sets |-> 0]
NoGateway == NewGateway(NilSc, FALSE, FALSE)

\* c.lc.SetServeConfig(ctx, sc), accepted by the daemon
SetServeConfig(g, sc) == [g EXCEPT !.sc = [sc EXCEPT !.nil = FALSE], !.sets = @ + 1]

\* A call on the Client makes its calls on the daemon in order; failAt is the
\* position of the one that fails (0: none does).
FailPoints == 0..6

\* the serve port and TLS usage SetupServe settles on
SelectPort(c) ==
  IF c.ServePort # 0
    THEN [srvPort |-> c.ServePort, useTLS |-> c.UseHTTPS \/ c.ServePort = 443]
    ELSE IF c.UseHTTPS THEN [srvPort |-> 443, useTLS |-> TRUE]
                       ELSE [srvPort |-> 80, useTLS |-> FALSE]

\* the mount path SetupServe cleans
CleanMountPath(p) == IF p = "" THEN "/" ELSE p

\* no ServiceInfo
NilInfo == [nil |-> TRUE]

\* mutant of SetupServe: the configuration is applied before the funnel checks
SetupServeApplyFirst(g, c, failAt) ==
  LET sel == SelectPort(c)
      sc0 == IF g.sc.nil THEN EmptySc ELSE g.sc
      sc1 == SetWebHandler(sc0, "proxy", sel.srvPort, CleanMountPath(c.MountPath), sel.useTLS)
      bad == c.EnableFunnel /\ (~sel.useTLS \/ sel.srvPort # 443 \/ ~g.https \/ ~g.cert)
  IN IF failAt \in {1, 2} \/ IsTCPForwardingOnPort(sc0, sel.srvPort)
       THEN [err |-> "failed", gw |-> g, info |-> NilInfo]
     ELSE IF bad
       THEN [err |-> "funnel", gw |-> SetServeConfig(g, sc1), info |-> NilInfo]
     ELSE [err |-> "", gw |-> SetServeConfig(g, IF c.EnableFunnel THEN SetFunnel(sc1, sel.srvPort) ELSE sc1),
           info |-> [ServePort |-> sel.srvPort, IsFunnel |-> c.EnableFunnel,
                     IsHTTPS |-> sel.useTLS]]

\* (c *Client) SetupServe.  Its calls on the daemon: 1 GetServeConfig,
\* 2 Status (GetDNSName), with TLS one Status whose failure is only logged,
\* with funnel one Status for the capability and one for the certificate,
\* and last SetServeConfig.
SetupServe(g, c, failAt) ==
  LET sel == SelectPort(c)
      srvPort == sel.srvPort
      useTLS == sel.useTLS
      sc0 == IF g.sc.nil THEN EmptySc ELSE g.sc
      sc1 == SetWebHandler(sc0, "proxy", srvPort, CleanMountPath(c.MountPath), useTLS)
      sc2 == IF useTLS THEN SetTCPHTTPS(sc1, srvPort) ELSE sc1
      sc3 == IF c.EnableFunnel THEN SetFunnel(sc2, srvPort) ELSE sc2
      tls == IF useTLS THEN 1 ELSE 0
      last == 3 + tls + (IF c.EnableFunnel THEN 2 ELSE 0)
      err ==
        IF failAt = 1 THEN "failed to get serve config"
        ELSE IF failAt = 2 THEN "failed to get status"
        ELSE IF IsTCPForwardingOnPort(sc0, srvPort) THEN "port is already serving TCP"
        ELSE IF c.EnableFunnel /\ (~useTLS \/ srvPort # 443)
          THEN "funnel requires HTTPS on port 443"
        ELSE IF c.EnableFunnel /\ (failAt = 3 + tls \/ ~g.https)
          THEN "HTTPS certificates not enabled"
        ELSE IF c.EnableFunnel /\ (failAt = 4 + tls \/ ~g.cert)
          THEN "cannot enable funnel"
        ELSE IF failAt = last THEN "failed to set serve config"
        ELSE ""
  IN IF err = ""
       THEN [err |-> "", gw |-> SetServeConfig(g, sc3),
             info |-> [ServePort |-> srvPort, IsFunnel |-> c.EnableFunnel,
                       IsHTTPS |-> useTLS]]
       ELSE [err |-> err, gw |-> g, info |-> NilInfo]

\* the ports findAvailableTailscalePort looks at from its starting port
PortScan == 200

\* (c *Client) findAvailableTailscalePort: the first port from start with no
\* TCP forwarding and no web handler; 0 when there is none
FindAvailableTailscalePort(sc, start) ==
  LET free == {p \in start..(start + PortScan - 1) :
                 /\ ~IsTCPForwardingOnPort(sc, p)
                 /\ ~\E w \in sc.web : w.port = p}
  IN IF free = {} THEN 0 ELSE CHOOSE p \in free : \A q \in free : p <= q

\* (c *Client) SetupUIServe, the random starting port being start.  Its calls
\* on the daemon: 1 GetServeConfig, 2 Status (GetDNSName), 3 SetServeConfig.
SetupUIServe(g, start, failAt) ==
  LET sc0 == IF g.sc.nil THEN EmptySc ELSE g.sc
      port == FindAvailableTailscalePort(sc0, start)
      sc1 == SetWebHandler(sc0, "ui", port, "/ui/", FALSE)
      err ==
        IF failAt = 1 THEN "failed to get serve config"
        ELSE IF failAt = 2 THEN "failed to get status"
        ELSE IF port = 0 THEN "failed to find available Tailscale port"
        ELSE IF failAt = 3 THEN "failed to set UI serve config"
        ELSE ""
  IN IF err = "" THEN [err |-> "", gw |-> SetServeConfig(g, sc1), port |-> port]
                 ELSE [err |-> err, gw |-> g, port |-> 0]

\* mutant of Cleanup: an absent configuration is an error
CleanupStrict(g, failAt) ==
  IF failAt = 1 \/ g.sc.nil THEN [err |-> "no serve config", gw |-> g]
  ELSE IF failAt = 2 THEN [err |-> "failed to get status", gw |-> g]
  ELSE IF failAt = 3 THEN [err |-> "failed to clear", gw |-> g]
  ELSE [err |-> "", gw |-> SetServeConfig(g, EmptySc)]

\* (c *Client) Cleanup.  Its calls on the daemon: 1 GetServeConfig (a failure
\* or a nil configuration is "nothing to clean up"), 2 Status (GetDNSName),
\* 3 SetServeConfig of the empty configuration.
Cleanup(g, failAt) ==
  IF failAt = 1 \/ g.sc.nil THEN [err |-> "", gw |-> g]
  ELSE IF failAt = 2 THEN [err |-> "failed to get status", gw |-> g]
  ELSE IF failAt = 3 THEN [err |-> "failed to clear", gw |-> g]
  ELSE [err |-> "", gw |-> SetServeConfig(g, EmptySc)]

\* (c *Client) CleanupAll: one call on the daemon, SetServeConfig of the empty
\* configuration
CleanupAll(g, failAt) ==
  IF failAt = 1 THEN [err |-> "failed to clear", gw |-> g]
  ELSE [err |-> "", gw |-> SetServeConfig(g, EmptySc)]

\* an absent or empty configuration
NothingRegistered(sc) == sc.web = {} /\ sc.tcp = {} /\ sc.funnel = {}

\* the web handlers in the configuration that this process put there
OwnHandlers(sc) == {w \in sc.web : w.target \in {"proxy", "ui"}}

\* start-up has not begun
NotStarted ==
  [mainPc |-> "none", setupPc |-> "none", proxyUp |-> FALSE, uiUp |-> FALSE,
   cleanup |-> "nil", uiCleanup |-> "nil", retCleanup |-> "nil", retUi |-> "nil",
   tsConfig |-> NilConfig, err |-> ""]

\* --------------------------------------------------------------- server
\* NewServer's choice of the log capacity
NewServerMaxLogs(maxLogs) == IF maxLogs <= 0 THEN DefaultMaxLogs ELSE maxLogs

\* AddListener: a nil listener is not registered
AddListenerTo(ls, l) == IF l # "nil" THEN Append(ls, l) ELSE ls

\* fmt.Sprintf("req_%d_%d", time.Now().Unix(), id): the fields of the id
FormatRequestID(unix, id) == <<"req", unix, id>>
SeqOf(id) == id[3]

\* mutant of AtomicAddOne: an increment lost to a concurrent one
AtomicAddOneLost(counter) == IF counter = 0 THEN 1 ELSE counter

\* atomic.AddInt64(&s.requestID, 1)
AtomicAddOne(counter) == counter + 1

\* mutant of AppendLog: appends and never evicts
AppendLogNoTrim(log, logEntry, cap) == Append(log, logEntry)

\* mutant of AppendLog: a full log drops the new record instead of the oldest
AppendLogKeepOldest(log, logEntry, cap) ==
  IF Len(log) >= cap THEN log ELSE Append(log, logEntry)

\* captureRequest under logMutex: append, then keep only the last maxLogsCap
AppendLog(log, logEntry, cap) ==
  LET a == Append(log, logEntry) IN IF Len(a) > cap THEN DropFirst(a) ELSE a

\* mutant of AfterListener: the loop ends after the first listener
AfterListenerBreak(ls, i) == IF ls[i] = "panic" THEN "unwind" ELSE "ret"

\* `for _, listener := range s.listeners { listener(logEntry) }` after the call
\* of listener i: a panic unwinds, otherwise the loop goes on to the next
\* listener and ends after the last
AfterListener(ls, i) ==
  IF ls[i] = "panic" THEN "unwind" ELSE IF i = Len(ls) THEN "ret" ELSE "notify"

\* GetRequestLogs: a copy of the log, taken under the read lock
GetRequestLogs == [i \in 1..Len(requestLog) |-> requestLog[i]]

\* mutants of the deferred decrement: not run on return, not run on a panic
DeferredOnReturnSkip(t) == t
DeferredOnPanicSkip(t) == t

\* the deferred s.stats.DecrementOpen(), run when ServeHTTP returns and when a
\* panic unwinds it
DeferredOnReturn(t) == TrackerDecrementOpen(t)
DeferredOnPanic(t) == TrackerDecrementOpen(t)

\* model.RequestLog as ServeHTTP builds it
BuildLogEntry(q) ==
  [ID |-> q.requestID, Timestamp |-> q.start, Method |-> q.in.method,
   URL |-> <<q.in.path, q.in.rawQuery>>, Headers |-> q.in.header,
   Body |-> q.bodyString, ContentType |-> HeaderGet(q.in.header, "Content-Type"),
   Size |-> q.in.cl, StatusCode |-> q.lrw.statusCode,
   Response |-> [StatusCode |-> q.lrw.statusCode, Headers |-> q.lrw.client.headers,
                 Size |-> q.lrw.size],
   Duration |-> q.duration]

NoEntry == [ID |-> <<>>]

\* the locals of a ServeHTTP invocation that has not begun
IdleReq ==
  [pc |-> "idle", in |-> [hasBody |-> FALSE], start |-> 0, requestID |-> <<>>,
   bodyString |-> <<>>, rBody |-> NilBody, read |-> 0, lrw |-> NewLrw,
   duration |-> 0, logEntry |-> NoEntry, li |-> 0, fwd |-> NotRead, incs |-> 0,
   decs |-> 0, forwards |-> 0, sent |-> "none"]

\* ------------------------------------------------------------- workloads
Modes == {"mock", "proxy"}
ConfigMaxLogs == {-1, 0, 1}
ListenerArgs == {"nil", "ok", "panic"}

\* what the backend does with a forwarded request (nothing is forwarded in mock mode)
Backends(mode) == IF mode = "proxy" THEN {"ok", "unreachable", "abort"} ELSE {"none"}

\* the byte counts of the responses written
RespLens == {3}

\* The declared Content-Length of a request carrying body: its length, or -1
\* when the length is not known in advance (chunked transfer).
ContentLengths(body) == {-1, ByteLen(body)}

\* the request line and headers of the requests that do not vary them
JsonHeader == HeaderSet(EmptyHeader, "Content-Type", "application/json")
Plain(in) ==
  [hasBody |-> in.hasBody, cl |-> in.cl, body |-> in.body, errAt |-> in.errAt,
   backend |-> in.backend, respLen |-> in.respLen,
   method |-> "POST", path |-> "/", rawQuery |-> "", header |-> JsonHeader]

\* "traffic": concurrent requests with one small body each
TrafficInputs(mode) ==
  {Plain([hasBody |-> TRUE, cl |-> 1, body |-> <<[b |-> 97, n |-> 1]>>, errAt |-> -1,
          backend |-> k, respLen |-> n]) : k \in Backends(mode), n \in RespLens}

\* "body": one request at a time, over every body, declared length and read
\* failure (after errAt runs); and a request with no body at all
BodyInputs(mode) ==
  UNION {{Plain([hasBody |-> TRUE, cl |-> c, body |-> b, errAt |-> e, backend |-> k,
                 respLen |-> n]) :
            c \in ContentLengths(b), e \in -1 .. Len(b) - 1, k \in Backends(mode),
            n \in RespLens} : b \in Bodies}
  \cup {Plain([hasBody |-> FALSE, cl |-> 0, body |-> <<>>, errAt |-> -1, backend |-> k,
               respLen |-> n]) : k \in Backends(mode), n \in RespLens}

\* "echo": one request at a time, over methods, paths, query strings, header
\* sets (a Content-Type may be absent, empty or set) and a few bodies
EchoHeaders ==
  {EmptyHeader, JsonHeader, HeaderSet(EmptyHeader, "Content-Type", ""),
   HeaderSet(JsonHeader, "User-Agent", "curl"),
   HeaderSet(EmptyHeader, "User-Agent", "curl")}
EchoBodies ==
  {<<>>, <<[b |-> 97, n |-> 1]>>, <<[b |-> 97, n |-> 1], [b |-> 255, n |-> 1]>>,
   <<[b |-> 97, n |-> BodyCapBytes \div 2], [b |-> 97, n |-> BodyCapBytes \div 2]>>}
EchoInputs(mode) ==
  {[hasBody |-> TRUE, cl |-> ByteLen(b), body |-> b, errAt |-> -1, backend |-> k,
    respLen |-> n, method |-> m, path |-> p, rawQuery |-> q, header |-> h] :
     b \in EchoBodies, k \in Backends(mode), n \in RespLens, m \in {"GET", "POST"},
     p \in {"/", "/webhook"}, q \in {"", "token=abc123"}, h \in EchoHeaders}

Workloads == {"traffic", "body", "echo", "tracker", "stream", "logs", "writer", "cli", "serve", "startup", "locks", "records", "probe", "tui", "access"}
WorkloadReqs(w) ==
  CASE w = "traffic" -> Reqs
    [] w \in {"body", "echo"} -> {1}
    [] w \in {"tracker", "stream", "logs", "writer", "cli", "serve", "startup", "locks", "records", "probe", "tui", "access"} -> {}
WorkloadInputs(w, mode) ==
  CASE w = "traffic" -> TrafficInputs(mode)
    [] w = "body" -> BodyInputs(mode)
    [] w = "echo" -> EchoInputs(mode)
    [] w \in {"tracker", "stream", "logs", "writer", "cli", "serve", "startup", "locks", "records", "probe", "tui", "access"} -> {}

\* ----------------------------------------------------------------- Init
\* NewServer(config): an empty log, no listeners, a fresh tracker, counter 0
InitServer(w) ==
  /\ workload = w
  /\ config \in [MaxLogs : ConfigMaxLogs, Mode : Modes]
  /\ serving = FALSE
  /\ now = 0
  /\ maxLogsCap = NewServerMaxLogs(config.MaxLogs)
  /\ listeners = <<>>
  /\ requestID = 0
  /\ requestLog = <<>>
  /\ stats = NewTracker
  /\ req = [r \in Reqs |-> IdleReq]
  /\ calls = <<>>
  /\ captured = <<>>
  /\ issued = <<>>
  /\ tk = NewHarness("none", <<>>)
  /\ mem = NewMem
  /\ wr = NewWr
  /\ lk = NoLocks
  /\ maps = NoMaps
  /\ probe = NoWait
  /\ ui = NoModel
  /\ al = NoAccessLog
  /\ cli = NoCommandLine
  /\ gw = NoGateway
  /\ gwlog = <<>>
  /\ boot = NotStarted

Init == InitServer("traffic")
InitBody == InitServer("body")
InitEcho == InitServer("echo")

\* -------------------------------------------------------------- wiring
\* main() registers its listeners before the HTTP server starts to listen.
AddListener(l) ==
  /\ ~serving
  /\ Len(listeners) < MaxListeners
  /\ listeners' = AddListenerTo(listeners, l)
  /\ calls' = [i \in 1..Len(listeners') |-> <<>>]
  /\ UNCHANGED <<maps, probe, ui, al, lk, cli, gw, gwlog, boot, wr, mem, tk, workload, config, serving, now, maxLogsCap, requestID, requestLog,
                 stats, req, captured, issued>>

\* httpServer.ListenAndServe / tsnetServer.Serve: requests may now arrive
StartServing ==
  /\ ~serving
  /\ serving' = TRUE
  /\ UNCHANGED <<maps, probe, ui, al, lk, cli, gw, gwlog, boot, wr, mem, tk, workload, config, now, maxLogsCap, listeners, requestID, requestLog,
                 stats, req, calls, captured, issued>>

\* time.Now(): the clock never runs backwards, so a reading is the previous
\* reading or later
TimeNow(last) == last..MaxClock

\* ----------------------------------------------------------- ServeHTTP
\* start := time.Now(); requestID := s.nextRequestID(); lrw := &LoggingResponseWriter{}
\* (both readings of the clock fall in this one step; invocations are numbered
\* in the order they begin)
Begin(r) ==
  /\ serving
  /\ r \in WorkloadReqs(workload)
  /\ req[r].pc = "idle"
  /\ \A q \in Reqs : q < r => req[q].pc # "idle"
  /\ \E in \in WorkloadInputs(workload, config.Mode), t \in TimeNow(now) :
       LET id == FormatRequestID(t, AtomicAddOne(requestID)) IN
       /\ now' = t
       /\ req' = [req EXCEPT ![r] = [@ EXCEPT !.pc = "inc", !.in = in, !.start = t,
                                              !.requestID = id,
                                              !.rBody = OrigStream(in),
                                              !.lrw = NewLrw]]
       /\ issued' = Append(issued, id)
  /\ requestID' = AtomicAddOne(requestID)
  /\ UNCHANGED <<maps, probe, ui, al, lk, cli, gw, gwlog, boot, wr, mem, tk, workload, config, serving, maxLogsCap, listeners, requestLog,
                 stats, calls, captured>>

\* s.stats.IncrementOpen(); defer s.stats.DecrementOpen()
IncrementOpen(r) ==
  /\ req[r].pc = "inc"
  /\ stats' = TrackerIncrementOpen(stats)
  /\ req' = [req EXCEPT ![r] = [@ EXCEPT !.pc = "serve",
                 !.incs = @ + (stats'.OpenConnections - stats.OpenConnections)]]
  /\ UNCHANGED <<maps, probe, ui, al, lk, cli, gw, gwlog, boot, wr, mem, tk, workload, config, serving, now, maxLogsCap, listeners, requestID,
                 requestLog, calls, captured, issued>>

\* the capture of the request body, then switch s.mode { handleMockRequest /
\* s.proxy.ServeHTTP }: both act on the request and its connection only
Dispatch(r) ==
  /\ req[r].pc = "serve"
  /\ LET c == CaptureBody(req[r].rBody, req[r].in.cl)
         d == DispatchHandler(config.Mode, req[r].lrw, req[r].in, c.rBody, c.bodyString)
     IN  req' = [req EXCEPT ![r] = [@ EXCEPT !.pc = IF d.panic THEN "unwind" ELSE "stats",
                                             !.bodyString = c.bodyString,
                                             !.rBody = c.rBody, !.read = c.read,
                                             !.lrw = d.lrw, !.fwd = d.fwd,
                                             !.forwards = @ + d.forwards,
                                             !.sent = d.sent]]
  /\ UNCHANGED <<maps, probe, ui, al, lk, cli, gw, gwlog, boot, wr, mem, tk, workload, config, serving, now, maxLogsCap, listeners, requestID,
                 requestLog, stats, calls, captured, issued>>

\* duration := time.Since(start); s.stats.AddRequest(duration)
AddRequest(r) ==
  /\ req[r].pc = "stats"
  /\ \E t \in TimeNow(now) :
       LET duration == t - req[r].start IN
       /\ now' = t
       /\ stats' = TrackerAddRequest(stats, duration)
       /\ req' = [req EXCEPT ![r] = [@ EXCEPT !.pc = "capture", !.duration = duration]]
  /\ UNCHANGED <<maps, probe, ui, al, lk, cli, gw, gwlog, boot, wr, mem, tk, workload, config, serving, maxLogsCap, listeners, requestID,
                 requestLog, calls, captured, issued>>

\* logEntry := model.RequestLog{...}; captureRequest: the part under logMutex
CaptureRequest(r) ==
  /\ req[r].pc = "capture"
  /\ LET logEntry == BuildLogEntry(req[r]) IN
     /\ requestLog' = AppendLog(requestLog, logEntry, maxLogsCap)
     /\ captured' = Append(captured, logEntry)
     /\ req' = [req EXCEPT ![r] = [@ EXCEPT !.logEntry = logEntry, !.li = 0,
                   !.pc = IF Len(listeners) = 0 THEN "ret" ELSE "notify"]]
  /\ UNCHANGED <<maps, probe, ui, al, lk, cli, gw, gwlog, boot, wr, mem, tk, workload, config, serving, now, maxLogsCap, listeners, requestID,
                 stats, calls, issued>>

\* captureRequest: one turn of `for _, listener := range s.listeners`; a
\* listener that panics unwinds ServeHTTP (nothing recovers)
NotifyListener(r) ==
  /\ req[r].pc = "notify"
  /\ LET i == req[r].li + 1 IN
     /\ calls' = [calls EXCEPT ![i] = Append(@, req[r].logEntry)]
     /\ req' = [req EXCEPT ![r] = [@ EXCEPT !.li = i, !.pc = AfterListener(listeners, i)]]
  /\ UNCHANGED <<maps, probe, ui, al, lk, cli, gw, gwlog, boot, wr, mem, tk, workload, config, serving, now, maxLogsCap, listeners, requestID,
                 requestLog, stats, captured, issued>>

\* ServeHTTP returns: the deferred DecrementOpen runs
Return(r) ==
  /\ req[r].pc = "ret"
  /\ stats' = DeferredOnReturn(stats)
  /\ req' = [req EXCEPT ![r] = [@ EXCEPT !.pc = "done",
                 !.decs = @ + (stats.OpenConnections - stats'.OpenConnections)]]
  /\ UNCHANGED <<maps, probe, ui, al, lk, cli, gw, gwlog, boot, wr, mem, tk, workload, config, serving, now, maxLogsCap, listeners, requestID,
                 requestLog, calls, captured, issued>>

\* a panic leaves ServeHTTP: the deferred DecrementOpen runs
Unwind(r) ==
  /\ req[r].pc = "unwind"
  /\ stats' = DeferredOnPanic(stats)
  /\ req' = [req EXCEPT ![r] = [@ EXCEPT !.pc = "panicked",
                 !.decs = @ + (stats.OpenConnections - stats'.OpenConnections)]]
  /\ UNCHANGED <<maps, probe, ui, al, lk, cli, gw, gwlog, boot, wr, mem, tk, workload, config, serving, now, maxLogsCap, listeners, requestID,
                 requestLog, calls, captured, issued>>

Next ==
  \/ \E l \in ListenerArgs : AddListener(l)
  \/ StartServing
  \/ \E r \in Reqs : Begin(r)
  \/ \E r \in Reqs : IncrementOpen(r)
  \/ \E r \in Reqs : Dispatch(r)
  \/ \E r \in Reqs : AddRequest(r)
  \/ \E r \in Reqs : CaptureRequest(r)
  \/ \E r \in Reqs : NotifyListener(r)
  \/ \E r \in Reqs : Return(r)
  \/ \E r \in Reqs : Unwind(r)

Spec == Init /\ [][Next]_vars
SpecBody == InitBody /\ [][Next]_vars
SpecEcho == InitEcho /\ [][Next]_vars

\* ------------------------------------------------- a Tracker on its own
\* "tracker": few samples of any duration on top of a preloaded history, with
\* every operation of the Tracker called in any order.
\* "stream": AddRequest and GetStats callers only, fed a long stream whose
\* n-th sample is fixed by a pattern, so that every window passes its cap.
SampleDurations == {1, 2, 3}
Ascending(n) == [i \in 1..n |-> i]
Descending(n) == [i \in 1..n |-> n + 1 - i]
Preloads == {<<>>, Descending(11), Ascending(100)}
Patterns == {"ascending", "cycle"}
StreamLen == CapDurations + 2
PatternSample(p, n) == IF p = "ascending" THEN n ELSE (n % 3) + 1

\* the samples the next AddRequest call may carry
NextSamples ==
  IF workload = "stream"
  THEN IF tk.added < StreamLen THEN {PatternSample(tk.pattern, tk.added + 1)} ELSE {}
  ELSE IF tk.added < MaxSamples THEN SampleDurations ELSE {}

InitTracker(w) ==
  /\ workload = w
  /\ config = [MaxLogs |-> 0, Mode |-> "mock"]
  /\ serving = FALSE
  /\ now = 0
  /\ maxLogsCap = NewServerMaxLogs(config.MaxLogs)
  /\ listeners = <<>>
  /\ requestID = 0
  /\ requestLog = <<>>
  /\ req = [r \in Reqs |-> IdleReq]
  /\ calls = <<>>
  /\ captured = <<>>
  /\ issued = <<>>
  /\ tk \in IF w = "stream" THEN {NewHarness(p, <<>>) : p \in Patterns}
                            ELSE {NewHarness("any", h) : h \in Preloads}
  /\ stats = Fed(tk.fed)
  /\ mem = NewMem
  /\ wr = NewWr
  /\ lk = NoLocks
  /\ maps = NoMaps
  /\ probe = NoWait
  /\ ui = NoModel
  /\ al = NoAccessLog
  /\ cli = NoCommandLine
  /\ gw = NoGateway
  /\ gwlog = <<>>
  /\ boot = NotStarted

\* what no Tracker operation touches
ServerUnchanged ==
  UNCHANGED <<maps, probe, ui, al, lk, cli, gw, gwlog, boot, wr, mem, workload, config, serving, now, maxLogsCap, listeners, requestID,
              requestLog, req, calls, captured, issued>>

\* AddRequest(d): t.mu.Lock(); t.TotalConnections++; append to Durations
AddRequestBegin(d) ==
  /\ tk.add = "idle"
  /\ d \in NextSamples
  /\ CanLock(tk.mu)
  /\ stats' = AddRequestCount(stats, d)
  /\ tk' = [tk EXCEPT !.mu.w = TRUE, !.add = "counted", !.d = d, !.added = @ + 1]
  /\ ServerUnchanged

\* AddRequest: the 1-minute and the 5-minute window
AddRequestMiddle ==
  /\ tk.add = "counted"
  /\ stats' = AddRequestWindows(stats, tk.d)
  /\ tk' = [tk EXCEPT !.add = "windowed"]
  /\ ServerUnchanged

\* AddRequest: the trim of Durations, then the deferred t.mu.Unlock()
AddRequestEnd ==
  /\ tk.add = "windowed"
  /\ stats' = AddRequestTrim(stats)
  /\ tk' = [tk EXCEPT !.mu.w = FALSE, !.add = "idle", !.d = 0,
                      !.fed = Append(@, tk.d)]
  /\ ServerUnchanged

\* IncrementOpen, under the write lock from Lock to the deferred Unlock
CallIncrementOpen ==
  /\ CanLock(tk.mu)
  /\ stats.OpenConnections < MaxOpen
  /\ stats' = TrackerIncrementOpen(stats)
  /\ UNCHANGED tk
  /\ ServerUnchanged

\* DecrementOpen, under the write lock; nothing stops it below zero
CallDecrementOpen ==
  /\ CanLock(tk.mu)
  /\ stats.OpenConnections > -MaxOpen
  /\ stats' = TrackerDecrementOpen(stats)
  /\ UNCHANGED tk
  /\ ServerUnchanged

\* Reset, under the write lock
CallReset ==
  /\ CanLock(tk.mu)
  /\ tk.resets < MaxResets
  /\ stats' = TrackerReset(stats)
  /\ tk' = [tk EXCEPT !.resets = @ + 1, !.fed = <<>>]
  /\ ServerUnchanged

\* GetStats: t.mu.RLock()
GetStatsBegin ==
  /\ tk.get = "idle"
  /\ Len(tk.seen) < MaxReads
  /\ CanRLock(tk.mu)
  /\ tk' = [tk EXCEPT !.mu.r = @ + 1, !.get = "reading"]
  /\ UNCHANGED stats
  /\ ServerUnchanged

\* GetStats: the results are computed, then the deferred t.mu.RUnlock().  The
\* caller of the "tracker" workload keeps what it was returned, with the overall
\* window it was computed from and the number of Resets before it.
GetStatsEnd ==
  /\ tk.get = "reading"
  /\ LET res == TrackerGetStats(stats)
     IN  /\ stats' = GetStatsAfter(stats)
         /\ tk' = [tk EXCEPT !.mu.r = @ - 1, !.get = "idle",
                             !.seen = IF workload = "tracker"
                                      THEN Append(@, [ttl |-> res.ttl, opn |-> res.opn,
                                                      rt1 |-> res.rt1, rt5 |-> res.rt5,
                                                      p50 |-> res.p50, p90 |-> res.p90,
                                                      window |-> stats.Durations,
                                                      w1 |-> stats.ResponseTimes1m,
                                                      w5 |-> stats.ResponseTimes5m,
                                                      epoch |-> tk.resets])
                                      ELSE @]
  /\ ServerUnchanged

NextStream ==
  \/ \E d \in NextSamples : AddRequestBegin(d)
  \/ AddRequestMiddle
  \/ AddRequestEnd
  \/ GetStatsBegin
  \/ GetStatsEnd

NextTracker ==
  \/ \E d \in NextSamples : AddRequestBegin(d)
  \/ AddRequestMiddle
  \/ AddRequestEnd
  \/ CallIncrementOpen
  \/ CallDecrementOpen
  \/ CallReset
  \/ GetStatsBegin
  \/ GetStatsEnd

SpecTracker == InitTracker("tracker") /\ [][NextTracker]_vars
SpecStream == InitTracker("stream") /\ [][NextStream]_vars


\* ------------------------------------------- the request log as slices
\* "logs": records are captured into the log (numbered 1, 2, ... as they come)
\* while callers of GetRequestLogs take snapshots and then replace, append to
\* and remove from the slices they were returned.
LogCaps == {1, 2}
\* what a caller writes into its snapshot
Forged == 0

InitLogs ==
  /\ workload = "logs"
  /\ config \in [MaxLogs : LogCaps, Mode : {"mock"}]
  /\ serving = FALSE
  /\ now = 0
  /\ maxLogsCap = NewServerMaxLogs(config.MaxLogs)
  /\ listeners = <<>>
  /\ requestID = 0
  /\ requestLog = <<>>
  /\ stats = NewTracker
  /\ req = [r \in Reqs |-> IdleReq]
  /\ calls = <<>>
  /\ captured = <<>>
  /\ issued = <<>>
  /\ tk = NewHarness("none", <<>>)
  /\ mem = NewMem
  /\ wr = NewWr
  /\ lk = NoLocks
  /\ maps = NoMaps
  /\ probe = NoWait
  /\ ui = NoModel
  /\ al = NoAccessLog
  /\ cli = NoCommandLine
  /\ gw = NoGateway
  /\ gwlog = <<>>
  /\ boot = NotStarted

\* what no step on the log's slices touches
LogsUnchanged ==
  UNCHANGED <<maps, probe, ui, al, lk, cli, gw, gwlog, boot, wr, workload, config, serving, now, maxLogsCap, listeners, requestID,
              stats, req, calls, issued, tk>>

\* captureRequest, the part under logMutex
LogsCapture ==
  /\ mem.captures < MaxCaptures
  /\ LET logEntry == mem.captures + 1
         c == CaptureSlice(mem.arrays, mem.log, logEntry, maxLogsCap)
     IN  /\ mem' = [mem EXCEPT !.arrays = c.arrays, !.log = c.sl, !.captures = logEntry]
         /\ requestLog' = AppendLog(requestLog, logEntry, maxLogsCap)
         /\ captured' = Append(captured, logEntry)
  /\ LogsUnchanged

\* GetRequestLogs, called by somebody who keeps the slice returned
LogsGet ==
  /\ Len(mem.snaps) < MaxSnaps
  /\ LET c == CopyOut(mem.arrays, mem.log)
     IN  mem' = [mem EXCEPT !.arrays = c.arrays,
                            !.snaps = Append(@, c.sl),
                            !.expect = Append(@, View(mem.arrays, mem.log)),
                            !.taken = Append(@, View(mem.arrays, mem.log)),
                            !.at = Append(@, mem.captures)]
  /\ UNCHANGED <<requestLog, captured>>
  /\ LogsUnchanged

\* the holder of snapshot i replaces its element k
CallerReplace(i, k) ==
  /\ mem.edits < MaxEdits
  /\ i \in DOMAIN mem.snaps /\ k \in 1..mem.snaps[i].len
  /\ mem' = [mem EXCEPT !.arrays = SetSlice(@, mem.snaps[i], k, Forged),
                        !.expect[i][k] = Forged, !.edits = @ + 1]
  /\ UNCHANGED <<requestLog, captured>>
  /\ LogsUnchanged

\* the holder of snapshot i appends an element to it
CallerAppend(i) ==
  /\ mem.edits < MaxEdits
  /\ i \in DOMAIN mem.snaps
  /\ LET a == AppendSlice(mem.arrays, mem.snaps[i], Forged)
     IN  mem' = [mem EXCEPT !.arrays = a.arrays, !.snaps[i] = a.sl,
                            !.expect[i] = Append(@, Forged), !.edits = @ + 1]
  /\ UNCHANGED <<requestLog, captured>>
  /\ LogsUnchanged

\* the holder of snapshot i removes its element k
CallerRemove(i, k) ==
  /\ mem.edits < MaxEdits
  /\ i \in DOMAIN mem.snaps /\ k \in 1..mem.snaps[i].len
  /\ LET a == RemoveAt(mem.arrays, mem.snaps[i], k)
     IN  mem' = [mem EXCEPT !.arrays = a.arrays, !.snaps[i] = a.sl,
                            !.expect[i] = SubSeq(@, 1, k - 1) \o SubSeq(@, k + 1, Len(@)),
                            !.edits = @ + 1]
  /\ UNCHANGED <<requestLog, captured>>
  /\ LogsUnchanged

NextLogs ==
  \/ LogsCapture
  \/ LogsGet
  \/ \E i \in 1..MaxSnaps : \E k \in 1..MaxCaptures : CallerReplace(i, k)
  \/ \E i \in 1..MaxSnaps : CallerAppend(i)
  \/ \E i \in 1..MaxSnaps : \E k \in 1..MaxCaptures : CallerRemove(i, k)

SpecLogs == InitLogs /\ [][NextLogs]_vars


\* --------------------------------- a LoggingResponseWriter on its own
\* "writer": a handler makes any calls of WriteHeader and Write on the writer,
\* the underlying writer accepting all, some or none of the bytes of a Write;
\* when the handler returns ServeHTTP builds the record from the writer.
StatusCodes == {0, StatusOK, 404}
WriteLens == {0, 1, 3}

InitWriter ==
  /\ workload = "writer"
  /\ config = [MaxLogs |-> 0, Mode |-> "mock"]
  /\ serving = FALSE
  /\ now = 0
  /\ maxLogsCap = NewServerMaxLogs(config.MaxLogs)
  /\ listeners = <<>>
  /\ requestID = 0
  /\ requestLog = <<>>
  /\ stats = NewTracker
  /\ req = [r \in Reqs |-> IdleReq]
  /\ calls = <<>>
  /\ captured = <<>>
  /\ issued = <<>>
  /\ tk = NewHarness("none", <<>>)
  /\ mem = NewMem
  /\ wr = NewWr
  /\ lk = NoLocks
  /\ maps = NoMaps
  /\ probe = NoWait
  /\ ui = NoModel
  /\ al = NoAccessLog
  /\ cli = NoCommandLine
  /\ gw = NoGateway
  /\ gwlog = <<>>
  /\ boot = NotStarted

\* what no call on the writer touches
WriterUnchanged ==
  UNCHANGED <<maps, probe, ui, al, lk, cli, gw, gwlog, boot, workload, config, serving, now, maxLogsCap, listeners, requestID,
              requestLog, stats, req, calls, captured, issued, tk, mem>>

\* lrw.WriteHeader(code): statusCode is assigned, then the underlying writer
\* is called, which panics on a code that is no status code
HandlerWriteHeader(code) ==
  /\ wr.pc = "handler"
  /\ Len(wr.accepted) + wr.headerCalls < MaxCalls
  /\ wr' = [wr EXCEPT !.lrw = LrwWriteHeader(@, code), !.headerCalls = @ + 1,
                      !.pc = IF code = 0 THEN "panicked" ELSE "handler"]
  /\ WriterUnchanged

\* lrw.Write(b) with len(b) = len, of which the underlying writer accepts n
HandlerWrite(len, n) ==
  /\ wr.pc = "handler"
  /\ Len(wr.accepted) + wr.headerCalls < MaxCalls
  /\ n \in 0..len
  /\ wr' = [wr EXCEPT !.lrw = LrwWrite(@, n), !.accepted = Append(@, n)]
  /\ WriterUnchanged

\* the handler returns and ServeHTTP builds the record
HandlerReturn ==
  /\ wr.pc = "handler"
  /\ wr' = [wr EXCEPT !.pc = "recorded", !.record = RecordOf(wr.lrw)]
  /\ WriterUnchanged

NextWriter ==
  \/ \E code \in StatusCodes : HandlerWriteHeader(code)
  \/ \E len \in WriteLens : \E n \in 0..len : HandlerWrite(len, n)
  \/ HandlerReturn

SpecWriter == InitWriter /\ [][NextWriter]_vars


\* ------------------------------------------- the command line on its own
\* "cli": a command line is parsed; a configuration for a run is turned into
\* the tailscale.Config of SetupLocalTailscaleQuiet and handed to SetupServe.
\* The daemon's configurations before this process touched it: absent, empty,
\* another program's TCP forwarding on a port, another program's web handler.
OtherForward(port) ==
  [EmptySc EXCEPT !.tcp = {[port |-> port, kind |-> "forward"]}]
OtherWeb ==
  SetWebHandler(EmptySc, "other", 10000, "/", FALSE)
PreConfigs == {NilSc, EmptySc, OtherForward(80), OtherForward(443), OtherWeb}
PreGateways ==
  {NewGateway(sc, h, c) : sc \in PreConfigs,
                          h \in BOOLEAN, c \in BOOLEAN}

\* everything but the command line and the daemon
CliUnchanged ==
  UNCHANGED <<maps, probe, ui, al, lk, workload, config, serving, now, maxLogsCap, listeners, requestID,
              requestLog, stats, req, calls, captured, issued, tk, mem, wr, boot>>

InitOther(w) ==
  /\ workload = w
  /\ config = [MaxLogs |-> 0, Mode |-> "mock"]
  /\ serving = FALSE
  /\ now = 0
  /\ maxLogsCap = NewServerMaxLogs(config.MaxLogs)
  /\ listeners = <<>>
  /\ requestID = 0
  /\ requestLog = <<>>
  /\ stats = NewTracker
  /\ req = [r \in Reqs |-> IdleReq]
  /\ calls = <<>>
  /\ captured = <<>>
  /\ issued = <<>>
  /\ tk = NewHarness("none", <<>>)
  /\ mem = NewMem
  /\ wr = NewWr
  /\ lk = NoLocks
  /\ maps = NoMaps
  /\ probe = NoWait
  /\ ui = NoModel
  /\ al = NoAccessLog

InitCli ==
  /\ InitOther("cli")
  /\ cli \in {[args |-> a, pc |-> "typed", result |-> [err |-> "", cfg |-> NilConfig]] :
                a \in CommandLines}
  /\ gw \in PreGateways
  /\ gwlog = <<>>
  /\ boot = NotStarted

\* cfg, err := config.Parse()
ParseArgs ==
  /\ cli.pc = "typed"
  /\ cli' = [cli EXCEPT !.pc = "parsed", !.result = Parse(cli.args)]
  /\ UNCHANGED <<gw, gwlog>>
  /\ CliUnchanged

\* whether a configuration is one for a run
IsRun(c) == c # NilConfig /\ ~c.Version /\ ~c.CleanupServe

\* the call of SetupServe in SetupLocalTailscaleQuiet, with its result
ServeParsed(failAt) ==
  /\ cli.pc = "parsed"
  /\ cli.result.err = ""
  /\ IsRun(cli.result.cfg)
  /\ LET c == TsConfigOf(cli.result.cfg)
         r == SetupServe(gw, c, failAt)
     IN /\ gw' = r.gw
        /\ gwlog' = Append(gwlog, [op |-> "SetupServe", config |-> c, failAt |-> failAt,
                                   err |-> r.err, info |-> r.info, before |-> gw, after |-> r.gw])
  /\ cli' = [cli EXCEPT !.pc = "served"]
  /\ CliUnchanged

NextCli ==
  \/ ParseArgs
  \/ \E failAt \in FailPoints : ServeParsed(failAt)

SpecCli == InitCli /\ [][NextCli]_vars

\* ------------------------------------------ the tailscale Client on its own
\* "serve": any calls of SetupServe, SetupUIServe, Cleanup and CleanupAll on
\* the Client, any one of the daemon calls inside a call failing.
DirectConfigs ==
  [MountPath : {""}, EnableFunnel : BOOLEAN, UseHTTPS : BOOLEAN,
   ServePort : ServePortArgs, ProxyPort : {ProxyPort}]

\* the random starting ports of findAvailableTailscalePort
UiStarts == {8080, 8179}

InitServe ==
  /\ InitOther("serve")
  /\ cli = NoCommandLine
  /\ gw \in PreGateways
  /\ gwlog = <<>>
  /\ boot = NotStarted

\* everything but the daemon and the calls on the Client
ServeUnchanged ==
  UNCHANGED <<maps, probe, ui, al, lk, workload, config, serving, now, maxLogsCap, listeners, requestID,
              requestLog, stats, req, calls, captured, issued, tk, mem, wr, cli, boot>>

\* the record of a call on the Client
Called(op, c, failAt, r, info) ==
  [op |-> op, config |-> c, failAt |-> failAt, err |-> r.err, info |-> info,
   before |-> gw, after |-> r.gw]

CallSetupServe(c, failAt) ==
  /\ Len(gwlog) < MaxGwCalls
  /\ LET r == SetupServe(gw, c, failAt)
     IN /\ gw' = r.gw
        /\ gwlog' = Append(gwlog, Called("SetupServe", c, failAt, r, r.info))
  /\ ServeUnchanged

CallSetupUIServe(start, failAt) ==
  /\ Len(gwlog) < MaxGwCalls
  /\ LET r == SetupUIServe(gw, start, failAt)
     IN /\ gw' = r.gw
        /\ gwlog' = Append(gwlog, Called("SetupUIServe", NilConfig, failAt, r, NilInfo))
  /\ ServeUnchanged

CallCleanup(failAt) ==
  /\ Len(gwlog) < MaxGwCalls
  /\ LET r == Cleanup(gw, failAt)
     IN /\ gw' = r.gw
        /\ gwlog' = Append(gwlog, Called("Cleanup", NilConfig, failAt, r, NilInfo))
  /\ ServeUnchanged

CallCleanupAll(failAt) ==
  /\ Len(gwlog) < MaxGwCalls
  /\ LET r == CleanupAll(gw, failAt)
     IN /\ gw' = r.gw
        /\ gwlog' = Append(gwlog, Called("CleanupAll", NilConfig, failAt, r, NilInfo))
  /\ ServeUnchanged

NextServe ==
  \/ \E c \in DirectConfigs : \E failAt \in FailPoints : CallSetupServe(c, failAt)
  \/ \E start \in UiStarts : \E failAt \in 0..3 : CallSetupUIServe(start, failAt)
  \/ \E failAt \in 0..3 : CallCleanup(failAt)
  \/ \E failAt \in 0..1 : CallCleanupAll(failAt)

SpecServe == InitServe /\ [][NextServe]_vars

\* --------------------------------------------- start-up and exit, with TUI
\* "startup": main's TUI branch on the local-Tailscale path.  The set-up
\* goroutine runs SetupLocalTailscaleQuiet and then assigns main's cleanup and
\* uiCleanup; main runs the TUI, and when the TUI returns reads the two
\* variables, calls what it finds and returns, which ends the process and the
\* goroutine with it.  Nothing orders the goroutine's writes and main's reads.
StartupLines ==
  {a \in CommandLines : ~a.version /\ ~a.cleanupServe /\ Parse(a).err = ""}

\* main has started the TUI and the set-up goroutine
Started ==
  [NotStarted EXCEPT !.mainPc = "tui", !.setupPc = "sleep"]

InitStartup ==
  /\ InitOther("startup")
  /\ cli \in {[args |-> a, pc |-> "parsed", result |-> Parse(a)] : a \in StartupLines}
  /\ gw \in PreGateways
  /\ gwlog = <<>>
  /\ boot = [Started EXCEPT !.tsConfig = TsConfigOf(cli.result.cfg)]

\* everything but the daemon and the process
StartupUnchanged ==
  UNCHANGED <<maps, probe, ui, al, lk, workload, config, serving, now, maxLogsCap, listeners, requestID,
              requestLog, stats, req, calls, captured, issued, tk, mem, wr, cli, gwlog>>

\* the goroutine runs as long as the process does
Alive == boot.mainPc # "stopped"

\* return nil, nil
ReturnNil(b) == [b EXCEPT !.setupPc = "failed", !.retCleanup = "nil", !.retUi = "nil"]

\* FindAvailableLocalPort for the proxy
SetupAllocate(ok) ==
  /\ Alive /\ boot.setupPc = "sleep"
  /\ boot' = IF ok THEN [boot EXCEPT !.setupPc = "proxy"] ELSE ReturnNil(boot)
  /\ UNCHANGED gw
  /\ StartupUnchanged

\* go httpServer.ListenAndServe(), then WaitForServerReady
SetupStartProxy(ready) ==
  /\ Alive /\ boot.setupPc = "proxy"
  /\ boot' = IF ready
               THEN [boot EXCEPT !.proxyUp = TRUE,
                                 !.setupPc = IF cli.result.cfg.NoUI THEN "serve" ELSE "ui"]
               ELSE ReturnNil(boot)
  /\ UNCHANGED gw
  /\ StartupUnchanged

\* the UI: a local port, SetupUIServerQuiet (SetupUIServe, then the UI server
\* and WaitForServerReady), and uiCleanup when all of it succeeded
SetupUI(port, start, failAt, ready) ==
  /\ Alive /\ boot.setupPc = "ui"
  /\ LET r == SetupUIServe(gw, start, failAt)
     IN IF ~port
          THEN /\ boot' = [boot EXCEPT !.setupPc = "serve"]
               /\ UNCHANGED gw
          ELSE /\ gw' = r.gw
               /\ boot' = [boot EXCEPT !.setupPc = "serve",
                                       !.uiUp = (r.err = "" /\ ready),
                                       !.retUi = IF r.err = "" /\ ready THEN "set" ELSE "nil"]
  /\ StartupUnchanged

\* tsClient.SetupServe(ctx, tsConfig); on an error return nil, nil
SetupCallServe(failAt) ==
  /\ Alive /\ boot.setupPc = "serve"
  /\ LET r == SetupServe(gw, boot.tsConfig, failAt)
     IN /\ gw' = r.gw
        /\ boot' = IF r.err = ""
                     THEN [boot EXCEPT !.setupPc = "publish", !.retCleanup = "set"]
                     ELSE [ReturnNil(boot) EXCEPT !.err = r.err]
  /\ StartupUnchanged

\* cleanup, uiCleanup = setupLocalTailscaleQuiet(...): the two assignments
SetupPublish ==
  /\ Alive /\ boot.setupPc \in {"publish", "failed"}
  /\ boot' = [boot EXCEPT !.cleanup = boot.retCleanup, !.setupPc = "publishUi"]
  /\ UNCHANGED gw
  /\ StartupUnchanged

SetupPublishUi ==
  /\ Alive /\ boot.setupPc = "publishUi"
  /\ boot' = [boot EXCEPT !.uiCleanup = boot.retUi, !.setupPc = "done"]
  /\ UNCHANGED gw
  /\ StartupUnchanged

\* q or Ctrl+C: program.Run() returns
Quit ==
  /\ boot.mainPc = "tui"
  /\ boot' = [boot EXCEPT !.mainPc = "exited"]
  /\ UNCHANGED gw
  /\ StartupUnchanged

\* if cleanup != nil { cleanup() }: CleanupAll, Cleanup when that failed, and
\* the proxy server's Shutdown
MainCleanup(failAll, failOne) ==
  /\ boot.mainPc = "exited"
  /\ IF boot.cleanup = "nil"
       THEN /\ boot' = [boot EXCEPT !.mainPc = "cleaned"]
            /\ UNCHANGED gw
       ELSE LET r == CleanupAll(gw, failAll)
            IN /\ gw' = IF r.err = "" THEN r.gw ELSE Cleanup(gw, failOne).gw
               /\ boot' = [boot EXCEPT !.mainPc = "cleaned", !.proxyUp = FALSE]
  /\ StartupUnchanged

\* if uiCleanup != nil { uiCleanup() }: the UI server's Shutdown
MainUiCleanup ==
  /\ boot.mainPc = "cleaned"
  /\ boot' = [boot EXCEPT !.mainPc = "uicleaned",
                          !.uiUp = IF boot.uiCleanup = "set" THEN FALSE ELSE @]
  /\ UNCHANGED gw
  /\ StartupUnchanged

\* main returns: the process stops
Stop ==
  /\ boot.mainPc = "uicleaned"
  /\ boot' = [boot EXCEPT !.mainPc = "stopped"]
  /\ UNCHANGED gw
  /\ StartupUnchanged

NextStartup ==
  \/ \E ok \in BOOLEAN : SetupAllocate(ok)
  \/ \E ready \in BOOLEAN : SetupStartProxy(ready)
  \/ \E port \in BOOLEAN : \E start \in UiStarts : \E failAt \in 0..3 :
       \E ready \in BOOLEAN : SetupUI(port, start, failAt, ready)
  \/ \E failAt \in FailPoints : SetupCallServe(failAt)
  \/ SetupPublish
  \/ SetupPublishUi
  \/ Quit
  \/ \E failAll \in 0..1 : \E failOne \in 0..3 : MainCleanup(failAll, failOne)
  \/ MainUiCleanup
  \/ Stop

SpecStartup == InitStartup /\ [][NextStartup]_vars

\* ------------------------------------------------ the locks of a Server
\* "locks": ServeHTTP invocations, each with a listener that calls
\* GetRequestLogs and GetStats on the Server it is called from, next to a
\* goroutine that takes snapshots (GetRequestLogs or GetStats) and one that
\* calls Tracker.Reset.  Every Lock() is a call, a wait and a return.
Handlers == 1..MaxRequests
Reader == MaxRequests + 1
Resetter == MaxRequests + 2
Goroutines == 1..(MaxRequests + 2)

InitLocks ==
  /\ workload = "locks"
  /\ config = [MaxLogs |-> 0, Mode |-> "mock"]
  /\ serving = TRUE
  /\ now = 0
  /\ maxLogsCap = NewServerMaxLogs(config.MaxLogs)
  /\ listeners = <<>>
  /\ requestID = 0
  /\ requestLog = <<>>
  /\ stats = NewTracker
  /\ req = [r \in Reqs |-> IdleReq]
  /\ calls = <<>>
  /\ captured = <<>>
  /\ issued = <<>>
  /\ tk = NewHarness("none", <<>>)
  /\ mem = NewMem
  /\ wr = NewWr
  /\ cli = NoCommandLine
  /\ gw = NoGateway
  /\ gwlog = <<>>
  /\ boot = NotStarted
  /\ lk = [NoLocks EXCEPT !.pc = [p \in Goroutines |-> "idle"]]
  /\ maps = NoMaps
  /\ probe = NoWait
  /\ ui = NoModel
  /\ al = NoAccessLog

\* everything but the locks, the statistics and the log
LocksUnchanged ==
  UNCHANGED <<maps, probe, ui, al, workload, config, serving, now, maxLogsCap, listeners, requestID,
              req, calls, captured, issued, tk, mem, wr, cli, gw, gwlog, boot>>

\* ServeHTTP is entered: s.stats.IncrementOpen() calls t.mu.Lock()
HStart(p) ==
  /\ p \in Handlers /\ lk.pc[p] = "idle"
  /\ lk' = [lk EXCEPT !.pc[p] = "incWait", !.mu = LockCall(@, p)]
  /\ UNCHANGED <<stats, requestLog>>
  /\ LocksUnchanged

\* t.mu.Lock() returns, in IncrementOpen, AddRequest, DecrementOpen or Reset
MuLock(p) ==
  /\ lk.pc[p] \in {"incWait", "addWait", "decWait", "resetWait"}
  /\ LockGranted(lk.mu, p)
  /\ lk' = [lk EXCEPT !.mu = LockTake(@, p),
                      !.pc[p] = CASE lk.pc[p] = "incWait" -> "incHeld"
                                  [] lk.pc[p] = "addWait" -> "addHeld"
                                  [] lk.pc[p] = "decWait" -> "decHeld"
                                  [] lk.pc[p] = "resetWait" -> "resetHeld"]
  /\ UNCHANGED <<stats, requestLog>>
  /\ LocksUnchanged

\* IncrementOpen: t.OpenConnections++ and the deferred Unlock
HIncrementOpen(p) ==
  /\ lk.pc[p] = "incHeld"
  /\ stats' = TrackerIncrementOpen(stats)
  /\ lk' = [lk EXCEPT !.mu = Unlock(@, p), !.pc[p] = "serve"]
  /\ UNCHANGED requestLog
  /\ LocksUnchanged

\* the handler has run: s.stats.AddRequest(duration) calls t.mu.Lock()
HServe(p) ==
  /\ lk.pc[p] = "serve"
  /\ lk' = [lk EXCEPT !.pc[p] = "addWait", !.mu = LockCall(@, p)]
  /\ UNCHANGED <<stats, requestLog>>
  /\ LocksUnchanged

\* AddRequest and its deferred Unlock; then captureRequest calls
\* s.logMutex.Lock()
HAddRequest(p) ==
  /\ lk.pc[p] = "addHeld"
  /\ stats' = TrackerAddRequest(stats, 1)
  /\ lk' = [lk EXCEPT !.mu = Unlock(@, p), !.pc[p] = "capWait",
                      !.logMutex = LockCall(@, p)]
  /\ UNCHANGED requestLog
  /\ LocksUnchanged

\* s.logMutex.Lock() returns
HLogLock(p) ==
  /\ lk.pc[p] = "capWait"
  /\ LockGranted(lk.logMutex, p)
  /\ lk' = [lk EXCEPT !.logMutex = LockTake(@, p), !.pc[p] = "capHeld"]
  /\ UNCHANGED <<stats, requestLog>>
  /\ LocksUnchanged

\* captureRequest: the append and s.logMutex.Unlock(); the listener is called
HCapture(p) ==
  /\ lk.pc[p] = "capHeld"
  /\ requestLog' = AppendLog(requestLog, [ID |-> p], maxLogsCap)
  /\ lk' = [lk EXCEPT !.logMutex = CaptureUnlock(@, p), !.pc[p] = "notify"]
  /\ UNCHANGED stats
  /\ LocksUnchanged

\* GetRequestLogs: s.logMutex.RLock() returns, in the listener or the reader
GetLogsBegin(p) ==
  /\ \/ lk.pc[p] = "notify"
     \/ p = Reader /\ lk.pc[p] = "idle" /\ lk.reads < MaxReads
  /\ RLockGranted(lk.logMutex)
  /\ lk' = [lk EXCEPT !.logMutex = RLockTake(@, p),
                      !.pc[p] = "logsHeld"]
  /\ UNCHANGED <<stats, requestLog>>
  /\ LocksUnchanged

\* GetRequestLogs: the copy and the deferred RUnlock
GetLogsEnd(p) ==
  /\ lk.pc[p] = "logsHeld"
  /\ lk' = [lk EXCEPT !.logMutex = RUnlock(@, p),
                      !.pc[p] = IF p = Reader THEN "idle" ELSE "listening",
                      !.reads = IF p = Reader THEN @ + 1 ELSE @]
  /\ UNCHANGED <<stats, requestLog>>
  /\ LocksUnchanged

\* GetStats: t.mu.RLock() returns, in the listener or the reader
GetStatsLockBegin(p) ==
  /\ \/ lk.pc[p] = "listening"
     \/ p = Reader /\ lk.pc[p] = "idle" /\ lk.reads < MaxReads
  /\ RLockGranted(lk.mu)
  /\ lk' = [lk EXCEPT !.mu = RLockTake(@, p), !.pc[p] = "statsHeld"]
  /\ UNCHANGED <<stats, requestLog>>
  /\ LocksUnchanged

\* GetStats: the deferred RUnlock.  In a handler the listener returns,
\* ServeHTTP returns and the deferred DecrementOpen calls t.mu.Lock()
GetStatsLockEnd(p) ==
  /\ lk.pc[p] = "statsHeld"
  /\ lk' = IF p = Reader
             THEN [lk EXCEPT !.mu = RUnlock(@, p), !.pc[p] = "idle", !.reads = @ + 1]
             ELSE [lk EXCEPT !.mu = LockCall(RUnlock(@, p), p), !.pc[p] = "decWait"]
  /\ UNCHANGED <<stats, requestLog>>
  /\ LocksUnchanged

\* DecrementOpen: t.OpenConnections-- and the deferred Unlock
HDecrementOpen(p) ==
  /\ lk.pc[p] = "decHeld"
  /\ stats' = TrackerDecrementOpen(stats)
  /\ lk' = [lk EXCEPT !.mu = Unlock(@, p), !.pc[p] = "done"]
  /\ UNCHANGED requestLog
  /\ LocksUnchanged

\* Tracker.Reset is called: t.mu.Lock()
ResetCall(p) ==
  /\ p = Resetter /\ lk.pc[p] = "idle" /\ lk.resets < MaxResets
  /\ lk' = [lk EXCEPT !.pc[p] = "resetWait", !.mu = LockCall(@, p)]
  /\ UNCHANGED <<stats, requestLog>>
  /\ LocksUnchanged

\* Reset: the assignments and the deferred Unlock
ResetDo(p) ==
  /\ lk.pc[p] = "resetHeld"
  /\ stats' = TrackerReset(stats)
  /\ lk' = [lk EXCEPT !.mu = Unlock(@, p), !.pc[p] = "idle", !.resets = @ + 1]
  /\ UNCHANGED requestLog
  /\ LocksUnchanged

\* the steps of goroutine p
Step(p) ==
  \/ HStart(p)
  \/ MuLock(p)
  \/ HIncrementOpen(p)
  \/ HServe(p)
  \/ HAddRequest(p)
  \/ HLogLock(p)
  \/ HCapture(p)
  \/ GetLogsBegin(p)
  \/ GetLogsEnd(p)
  \/ GetStatsLockBegin(p)
  \/ GetStatsLockEnd(p)
  \/ HDecrementOpen(p)
  \/ ResetCall(p)
  \/ ResetDo(p)

NextLocks == \E p \in Goroutines : Step(p)

SpecLocks == InitLocks /\ [][NextLocks]_vars
\* every goroutine that can take a step is scheduled in the end
SpecLocksFair == SpecLocks /\ \A p \in Goroutines : WF_vars(Step(p))

\* ------------------------------------------- records and their maps
\* "records": ServeHTTP builds a record and captureRequest stores it and
\* hands it to the listeners; callers take snapshots with GetRequestLogs; the
\* holders of a record then write to it.  A model.RequestLog is a struct,
\* copied whenever it is passed or stored; its Headers and Response.Headers
\* are Go maps, that is references into maps.heap.
HeaderKeys == {"K"}
\* "" stands for a key the map does not hold
HeaderValues == {"", "a"}
HeaderMaps == [HeaderKeys -> HeaderValues]
\* what a holder writes
ForgedValue == "forged"

\* make(map[string]string) filled from h: a fresh map on the heap
MakeMap(heap, h) == [heap |-> Append(heap, h), ref |-> Len(heap) + 1]
\* what a record shows to the one who reads it through its maps
Deref(heap, rec) ==
  [ID |-> rec.ID, StatusCode |-> rec.StatusCode, Headers |-> heap[rec.Headers],
   ResponseHeaders |-> heap[rec.Response.Headers]]
\* ServeHTTP: reqHeaders, lrw.headers and the logEntry made of them
BuildRecord(heap, id, h, rh) ==
  LET m1 == MakeMap(heap, h)
      m2 == MakeMap(m1.heap, rh)
  IN  [heap |-> m2.heap,
       rec |-> [ID |-> id, StatusCode |-> StatusOK, Headers |-> m1.ref,
                Response |-> [StatusCode |-> StatusOK, Headers |-> m2.ref]]]

InitRecords ==
  /\ InitOther("records")
  /\ cli = NoCommandLine
  /\ gw = NoGateway
  /\ gwlog = <<>>
  /\ boot = NotStarted

RecordsUnchanged ==
  UNCHANGED <<workload, config, serving, now, maxLogsCap, listeners, requestID,
              requestLog, stats, req, calls, captured, issued, tk, mem, wr,
              cli, gw, gwlog, boot, lk, probe, ui, al>>

\* ServeHTTP from the record on: the record is built, appended to the log
\* (trimmed to the cap) and passed to each of the listeners
RecordsServe(h, rh) ==
  /\ Len(maps.built) < MaxRequests
  /\ LET id == Len(maps.built) + 1
         b == BuildRecord(maps.heap, id, h, rh)
     IN  maps' = [maps EXCEPT !.heap = b.heap,
                              !.log = AppendLog(@, b.rec, maxLogsCap),
                              !.held = @ \o [l \in 1..MaxListeners |-> b.rec],
                              !.built = Append(@, Deref(b.heap, b.rec))]
  /\ RecordsUnchanged

\* GetRequestLogs: the caller keeps the records of the copy
RecordsGet ==
  /\ Len(maps.held) < MaxRequests * MaxListeners + MaxSnaps
  /\ maps.log # <<>>
  /\ maps' = [maps EXCEPT !.held = @ \o maps.log]
  /\ RecordsUnchanged

\* the holder of record i assigns to a field of its copy
HolderSetStatus(i) ==
  /\ maps.edits < MaxEdits
  /\ i \in DOMAIN maps.held
  /\ maps' = [maps EXCEPT !.held[i].StatusCode = @ + 1, !.edits = @ + 1]
  /\ RecordsUnchanged

\* the holder of record i writes entry.Headers[k] = v
HolderSetHeader(i, k) ==
  /\ maps.edits < MaxEdits
  /\ i \in DOMAIN maps.held
  /\ maps' = [maps EXCEPT !.heap[maps.held[i].Headers][k] = ForgedValue,
                          !.edits = @ + 1]
  /\ RecordsUnchanged

\* the holder of record i writes entry.Response.Headers[k] = v
HolderSetResponseHeader(i, k) ==
  /\ maps.edits < MaxEdits
  /\ i \in DOMAIN maps.held
  /\ maps' = [maps EXCEPT !.heap[maps.held[i].Response.Headers][k] = ForgedValue,
                          !.edits = @ + 1]
  /\ RecordsUnchanged

MaxHeld == MaxRequests * MaxListeners + MaxSnaps

NextRecords ==
  \/ \E h, rh \in HeaderMaps : RecordsServe(h, rh)
  \/ RecordsGet
  \/ \E i \in 1..MaxHeld : HolderSetStatus(i)
  \/ \E i \in 1..MaxHeld : \E k \in HeaderKeys : HolderSetHeader(i, k)
  \/ \E i \in 1..MaxHeld : \E k \in HeaderKeys : HolderSetResponseHeader(i, k)

SpecRecords == InitRecords /\ [][NextRecords]_vars

\* ------------------------------------------------- WaitForServerReady
\* "probe": one call of WaitForServerReady.  Time is counted in periods of
\* its ticker (10 ms); the context ends at the deadline or when the caller's
\* context is cancelled; the server may start to listen at any moment.
\* the clock stops here
MaxTime == MaxTimeout + MaxDial + 1
\* <-ctx.Done() is ready
CtxDone(w) == w.cancelled \/ w.t >= w.deadline
\* time passes: d periods later the ticker's channel (of capacity 1) holds a
\* tick when at least one period went by
Elapse(w, d) ==
  [w EXCEPT !.t = IF @ + d > MaxTime THEN MaxTime ELSE @ + d,
            !.tick = @ \/ d >= 1]

\* context.WithTimeout(ctx, timeout) and time.NewTicker(10 * time.Millisecond)
InitProbe ==
  /\ workload = "probe"
  /\ config = [MaxLogs |-> 0, Mode |-> "mock"]
  /\ serving = FALSE
  /\ now = 0
  /\ maxLogsCap = NewServerMaxLogs(config.MaxLogs)
  /\ listeners = <<>>
  /\ requestID = 0
  /\ requestLog = <<>>
  /\ stats = NewTracker
  /\ req = [r \in Reqs |-> IdleReq]
  /\ calls = <<>>
  /\ captured = <<>>
  /\ issued = <<>>
  /\ tk = NewHarness("none", <<>>)
  /\ mem = NewMem
  /\ wr = NewWr
  /\ lk = NoLocks
  /\ maps = NoMaps
  /\ ui = NoModel
  /\ al = NoAccessLog
  /\ cli = NoCommandLine
  /\ gw = NoGateway
  /\ gwlog = <<>>
  /\ boot = NotStarted
  /\ probe \in {[NoWait EXCEPT !.pc = "select", !.deadline = d, !.up = u] :
                  d \in 1..MaxTimeout, u \in BOOLEAN}

ProbeUnchanged ==
  UNCHANGED <<workload, config, serving, now, maxLogsCap, listeners, requestID,
              requestLog, stats, req, calls, captured, issued, tk, mem, wr,
              cli, gw, gwlog, boot, lk, maps, ui, al>>

\* neither case of the select is ready: the goroutine sleeps until the next
\* tick
SelectBlock ==
  /\ probe.pc = "select" /\ ~probe.tick /\ ~CtxDone(probe)
  /\ probe' = Elapse(probe, 1)
  /\ ProbeUnchanged

\* case <-ctx.Done(): return the error
SelectDone ==
  /\ probe.pc = "select" /\ CtxDone(probe)
  /\ probe' = [probe EXCEPT !.pc = "returned", !.result = "error"]
  /\ ProbeUnchanged

\* case <-ticker.C: net.DialTimeout is called (select takes any ready case)
SelectTick ==
  /\ probe.pc = "select" /\ probe.tick
  /\ probe' = [probe EXCEPT !.pc = "dial", !.tick = FALSE,
                            !.late = @ \/ probe.t > probe.deadline,
                            !.polls = IF @ < MaxTimeout THEN @ + 1 ELSE @]
  /\ ProbeUnchanged

\* net.DialTimeout returns after d periods: connected when the server
\* listens, else an error (refused, or timed out after 100 ms)
DialReturn(d, ok) ==
  /\ probe.pc = "dial"
  /\ ok => probe.up
  /\ probe' = IF ok
                THEN [Elapse(probe, d) EXCEPT !.pc = "returned", !.result = "nil",
                                              !.connected = TRUE]
                ELSE [Elapse(probe, d) EXCEPT !.pc = "select"]
  /\ ProbeUnchanged

\* the server starts to listen
ServerListens ==
  /\ probe.pc \in {"select", "dial"} /\ ~probe.up
  /\ probe' = [probe EXCEPT !.up = TRUE]
  /\ ProbeUnchanged

\* the caller's context is cancelled
CallerCancels ==
  /\ probe.pc \in {"select", "dial"} /\ ~probe.cancelled
  /\ probe' = [probe EXCEPT !.cancelled = TRUE]
  /\ ProbeUnchanged

NextProbe ==
  \/ SelectBlock
  \/ SelectDone
  \/ SelectTick
  \/ \E d \in 0..MaxDial : \E ok \in BOOLEAN : DialReturn(d, ok)
  \/ ServerListens
  \/ CallerCancels

SpecProbe == InitProbe /\ [][NextProbe]_vars
\* time passes and a dial returns; select, choosing at random among the ready
\* cases, does not pass over <-ctx.Done() for ever
SpecProbeFair ==
  /\ SpecProbe
  /\ WF_vars(SelectBlock)
  /\ WF_vars(\E d \in 0..MaxDial : \E ok \in BOOLEAN : DialReturn(d, ok))
  /\ WF_vars(SelectTick \/ SelectDone)
  /\ SF_vars(SelectDone)

\* ---------------------------------------------------------- the TUI model
\* "tui": Bubble Tea hands the model's Update one message after the other:
\* window sizes, ticks, log lines, requests and keys.  Log messages are
\* numbered as they arrive; a request is known by the id of its record.
Keys == {"q", "ctrl+c", "up", "x"}
Widths == {80}
\* the line Update makes of a log message
FormatLogLine(msg) == <<msg.Time, msg.Level, msg.Message>>
\* the n-th log message
LogMsgNo(n) == [Time |-> n, Level |-> "INFO", Message |-> n]

\* mutant of AppendLogLine: a full history is cut by its newest line
AppendLogLineDropNewest(lines, logLine) ==
  LET a == Append(lines, logLine)
  IN  IF Len(a) > AppLogCap THEN SubSeq(a, 1, Len(a) - 1) ELSE a
\* case LogMsg: append, then "keep only last 1000 lines"
AppendLogLine(lines, logLine) ==
  LET a == Append(lines, logLine)
  IN  IF Len(a) > AppLogCap THEN SubSeq(a, 2, Len(a)) ELSE a

\* case tea.KeyMsg: ctrl+c and q return tea.Quit, every other key falls
\* through to the viewports and tea.Batch
UpdateKey(m, key) ==
  [m EXCEPT !.cmd = IF key \in {"ctrl+c", "q"} THEN "quit" ELSE "batch",
            !.pc = IF key \in {"ctrl+c", "q"} THEN "quit" ELSE @,
            !.last = key]

\* case RequestMsg: m.lastRequest = &msg.Log
UpdateRequest(m, id) ==
  [m EXCEPT !.lastRequest = id, !.cmd = "batch", !.last = "request",
            !.requestMsgs = @ + 1]

InitTui ==
  /\ workload = "tui"
  /\ config = [MaxLogs |-> 0, Mode |-> "mock"]
  /\ serving = FALSE
  /\ now = 0
  /\ maxLogsCap = NewServerMaxLogs(config.MaxLogs)
  /\ listeners = <<>>
  /\ requestID = 0
  /\ requestLog = <<>>
  /\ stats = NewTracker
  /\ req = [r \in Reqs |-> IdleReq]
  /\ calls = <<>>
  /\ captured = <<>>
  /\ issued = <<>>
  /\ tk = NewHarness("none", <<>>)
  /\ mem = NewMem
  /\ wr = NewWr
  /\ lk = NoLocks
  /\ maps = NoMaps
  /\ probe = NoWait
  /\ al = NoAccessLog
  /\ cli = NoCommandLine
  /\ gw = NoGateway
  /\ gwlog = <<>>
  /\ boot = NotStarted
  /\ ui = NewModel

TuiUnchanged ==
  UNCHANGED <<workload, config, serving, now, maxLogsCap, listeners, requestID,
              requestLog, stats, req, calls, captured, issued, tk, mem, wr,
              cli, gw, gwlog, boot, lk, maps, probe, al>>

\* case tea.WindowSizeMsg: the viewports are made (or resized), m.ready = true
TuiWindowSize(w) ==
  /\ ui.pc = "run"
  /\ ui' = [ui EXCEPT !.ready = TRUE, !.width = w, !.cmd = "batch", !.last = "size"]
  /\ TuiUnchanged

\* case tickMsg: the statistics pane is refreshed and the next tick asked for
TuiTick ==
  /\ ui.pc = "run"
  /\ ui' = [ui EXCEPT !.cmd = "tick", !.last = "tick"]
  /\ TuiUnchanged

\* case LogMsg
TuiLog ==
  /\ ui.pc = "run"
  /\ ui.logMsgs < AppLogCap + MaxOverflow
  /\ ui' = [ui EXCEPT !.appLogLines =
                         AppendLogLine(@, FormatLogLine(LogMsgNo(ui.logMsgs + 1))),
                      !.logMsgs = @ + 1, !.cmd = "batch", !.last = "log"]
  /\ TuiUnchanged

\* case RequestMsg
TuiRequest(id) ==
  /\ ui.pc = "run"
  /\ ui.requestMsgs < MaxRequests
  /\ ui' = [UpdateRequest(ui, id) EXCEPT !.arrived = id]
  /\ TuiUnchanged

\* case tea.KeyMsg
TuiKey(key) ==
  /\ ui.pc = "run"
  /\ ui' = UpdateKey(ui, key)
  /\ TuiUnchanged

NextTui ==
  \/ \E w \in Widths : TuiWindowSize(w)
  \/ TuiTick
  \/ TuiLog
  \/ \E id \in 1..MaxRequests : TuiRequest(id)
  \/ \E key \in Keys : TuiKey(key)

SpecTui == InitTui /\ [][NextTui]_vars

\* ------------------------------------------------ the AccessLog middleware
\* "access": requests go through AccessLog(callback)(next).  The clock is
\* read in nanoseconds and never runs backwards; successive readings may be
\* equal.
Instants == {0, 1, CharsetLen, NanosPerSecond}
\* time.Now().Format("20060102150405"): the second of the reading
FormatSecond(t) == t \div NanosPerSecond
\* charset[time.Now().UnixNano() % int64(len(charset))]
CharAt(t) == t % CharsetLen
\* the readings generateRequestID makes, one for the second and one for each
\* character, from a clock showing t0 or later
Readings(t0) ==
  {rd \in [1..(SuffixLen + 1) -> {t \in Instants : t >= t0}] :
     \A i \in 1..SuffixLen : rd[i] <= rd[i + 1]}
\* generateRequestID: "req_" + second + "_" + randomString(6)
GenerateRequestID(rd) ==
  <<"req", FormatSecond(rd[1]), [i \in 1..SuffixLen |-> CharAt(rd[i + 1])]>>

InitAccess ==
  /\ workload = "access"
  /\ config = [MaxLogs |-> 0, Mode |-> "mock"]
  /\ serving = FALSE
  /\ now = 0
  /\ maxLogsCap = NewServerMaxLogs(config.MaxLogs)
  /\ listeners = <<>>
  /\ requestID = 0
  /\ requestLog = <<>>
  /\ stats = NewTracker
  /\ req = [r \in Reqs |-> IdleReq]
  /\ calls = <<>>
  /\ captured = <<>>
  /\ issued = <<>>
  /\ tk = NewHarness("none", <<>>)
  /\ mem = NewMem
  /\ wr = NewWr
  /\ lk = NoLocks
  /\ maps = NoMaps
  /\ probe = NoWait
  /\ ui = NoModel
  /\ cli = NoCommandLine
  /\ gw = NoGateway
  /\ gwlog = <<>>
  /\ boot = NotStarted
  /\ al \in {[NoAccessLog EXCEPT !.callback = cb, !.pc = [r \in Reqs |-> "idle"]] :
               cb \in {"fn", "nil"}}

AccessUnchanged ==
  UNCHANGED <<workload, config, serving, now, maxLogsCap, listeners, requestID,
              requestLog, stats, req, calls, captured, issued, tk, mem, wr,
              cli, gw, gwlog, boot, lk, maps, probe, ui>>

\* the middleware is entered: the writer is wrapped, the body read and
\* next.ServeHTTP(lrw, r) called
AccessBegin(r) ==
  /\ al.pc[r] = "idle"
  /\ al' = [al EXCEPT !.pc[r] = "next"]
  /\ AccessUnchanged

\* next.ServeHTTP returns, or panics through the middleware
AccessNext(r, panics) ==
  /\ al.pc[r] = "next"
  /\ al' = [al EXCEPT !.pc[r] = IF panics THEN "panicked" ELSE "log"]
  /\ AccessUnchanged

\* the record is built, generateRequestID called for its ID, and the callback
\* called with it unless it is nil
AccessLog(r, rd) ==
  /\ al.pc[r] = "log"
  /\ rd \in Readings(al.clock)
  /\ LET logEntry == [req |-> r, ID |-> GenerateRequestID(rd)]
     IN  al' = [al EXCEPT !.pc[r] = "done",
                          !.clock = rd[SuffixLen + 1],
                          !.built = Append(@, logEntry),
                          !.delivered = IF al.callback # "nil" THEN Append(@, logEntry)
                                        ELSE @]
  /\ AccessUnchanged

NextAccess ==
  \/ \E r \in Reqs : AccessBegin(r)
  \/ \E r \in Reqs : \E panics \in BOOLEAN : AccessNext(r, panics)
  \/ \E r \in Reqs : \E rd \in Readings(al.clock) : AccessLog(r, rd)

SpecAccess == InitAccess /\ [][NextAccess]_vars

\* =================================================================== claims
Finished(r) == req[r].pc \in {"done", "panicked"}
Begun(r) == req[r].pc # "idle"
\* the handler of r has returned or panicked: the capture block and the dispatch are over
Served(r) == req[r].pc \notin {"idle", "inc", "serve"}
\* r has built its record and appended it
Recorded(r) == req[r].logEntry # NoEntry
Count(s, x) == Cardinality({i \in DOMAIN s : s[i] = x})

C2_OneRecordPerRequest ==
  /\ \A r \in Reqs :
       /\ Count(captured, req[r].logEntry) <= 1
       /\ Recorded(r) => Count(captured, req[r].logEntry) = 1
       /\ req[r].pc = "done" =>
            /\ Recorded(r)
            /\ \A i \in DOMAIN listeners : Count(calls[i], req[r].logEntry) = 1
  /\ \A k \in DOMAIN captured : \E r \in Reqs : req[r].logEntry = captured[k]
  /\ Len(captured) = Cardinality({r \in Reqs : Recorded(r)})
  /\ \A i \in DOMAIN calls : \A k \in DOMAIN calls[i] :
       /\ Count(calls[i], calls[i][k]) = 1
       /\ \E r \in Reqs : req[r].logEntry = calls[i][k]

C2_Witness ==
  /\ Len(listeners) = 2
  /\ \A r \in Reqs : req[r].pc = "done"

\* C3: with two listeners of which the first panics on every call, the second
\* is still invoked with every completed transaction and the panic does not
\* leave ServeHTTP.
C3_ListenerIsolation ==
  (Len(listeners) = 2 /\ listeners[1] = "panic") =>
    \A r \in Reqs :
      (Recorded(r) /\ req[r].li >= 1) =>
        /\ req[r].pc \notin {"unwind", "panicked"}
        /\ Finished(r) => req[r].logEntry \in Range(calls[2])

\* C4: once all the ServeHTTP invocations that started have completed, the
\* open gauge reported by GetStats is back at its value before the first (0).
C4_GaugeRestored ==
  (\A r \in Reqs : ~Begun(r) \/ Finished(r)) => GetStatsOpn = 0

\* several invocations that overlapped have all completed, one with an error
C4_Witness ==
  /\ \A r \in Reqs : Finished(r)
  /\ \E r \in Reqs : req[r].pc = "panicked"
  /\ \E r \in Reqs : req[r].pc = "done"
  /\ stats.TotalConnections > 0

\* C5: the gauge is incremented once and decremented exactly once per ServeHTTP
\* invocation on every exit path, a panic of the handler or of a listener
\* included: never skipped, never twice.
C5_DecrementExactlyOnce ==
  \A r \in Reqs :
    /\ req[r].incs \in {0, 1} /\ req[r].decs \in {0, 1}
    /\ req[r].pc \notin {"idle", "inc"} => req[r].incs = 1
    /\ Finished(r) => req[r].decs = 1
    /\ ~Finished(r) => req[r].decs = 0

\* one invocation left by a panic of the handler, another by a panic of a listener
C5_Witness ==
  /\ \E r \in Reqs : req[r].pc = "panicked" /\ ~Recorded(r) /\ req[r].decs = 1
  /\ \E r \in Reqs : req[r].pc = "panicked" /\ Recorded(r) /\ req[r].decs = 1

\* C6: a request whose declared Content-Length is below 10 MiB and whose body
\* is read without error hands the handler a body equal to what the client
\* sent, and the record's Body holds the same bytes.
C6_BodyReplayed ==
  \A r \in Reqs :
    (Served(r) /\ req[r].in.hasBody /\ req[r].in.cl < BodyCapBytes /\ req[r].in.errAt < 0) =>
      /\ req[r].rBody = Stream(req[r].in.body, FALSE)
      /\ req[r].bodyString = req[r].in.body
      /\ req[r].fwd # NotRead => req[r].fwd = Stream(req[r].in.body, FALSE)
      /\ Recorded(r) => req[r].logEntry.Body = req[r].in.body

\* a body with a byte that is not UTF-8, forwarded to a backend and recorded
C6_Witness ==
  \E r \in Reqs :
    /\ Recorded(r) /\ req[r].in.cl < BodyCapBytes /\ req[r].in.errAt < 0
    /\ req[r].fwd # NotRead
    /\ \E i \in DOMAIN req[r].in.body : req[r].in.body[i].b > 127
    /\ Len(req[r].in.body) = MaxRuns
    /\ req[r].logEntry \in Range(requestLog)

\* C7: the body bytes ServeHTTP reads for capture stay below the 10 MiB cap for
\* every request, whatever its declared Content-Length (-1 included) and its
\* actual size; no record holds a Body of 10 MiB or more.
C7_CaptureBounded ==
  /\ \A r \in Reqs : req[r].read < BodyCapBytes
  /\ \A k \in DOMAIN requestLog : ByteLen(requestLog[k].Body) < BodyCapBytes

\* C8: a request whose declared Content-Length is 10 MiB or more has nothing
\* read from its body, hands the original stream to the handler, is served,
\* and its record (emitted once the handler has returned) has an empty Body.
C8_OverCapSkipped ==
  \A r \in Reqs :
    (Served(r) /\ req[r].in.cl >= BodyCapBytes) =>
      /\ req[r].read = 0
      /\ req[r].rBody = OrigStream(req[r].in)
      /\ req[r].bodyString = <<>>
      /\ req[r].lrw.statusCode # 0
      /\ req[r].fwd # NotRead => req[r].fwd = OrigStream(req[r].in)
      /\ Recorded(r) => req[r].logEntry.Body = <<>>
      /\ req[r].pc \in {"notify", "ret", "done"} =>
           Recorded(r) /\ req[r].logEntry \in Range(captured)

C8_Witness ==
  \E r \in Reqs :
    /\ req[r].pc = "done" /\ req[r].in.cl >= BodyCapBytes
    /\ ByteLen(req[r].in.body) >= BodyCapBytes
    /\ req[r].fwd = Stream(req[r].in.body, FALSE)
    /\ \E k \in DOMAIN requestLog : requestLog[k] = req[r].logEntry /\ requestLog[k].Body = <<>>

\* C9: any two requests of one Server get distinct ids, and the sequence
\* component is strictly larger for the one that got its id later.
C9_DistinctIds ==
  /\ \A i, j \in DOMAIN issued :
       i < j => issued[i] # issued[j] /\ SeqOf(issued[i]) < SeqOf(issued[j])
  /\ \A r, q \in Reqs : (r # q /\ Begun(r) /\ Begun(q)) => req[r].requestID # req[q].requestID
  /\ Len(issued) = Cardinality({r \in Reqs : Begun(r)})

\* two requests that got their ids within the same second, both in flight
C9_Witness ==
  /\ Len(issued) = 2
  /\ issued[1][2] = issued[2][2]
  /\ \A r \in Reqs : Begun(r) /\ ~Finished(r)

\* C10 as stated: the append and the delivery are one step; no log visible to
\* GetRequestLogs holds a record some registered listener has not received, and
\* no listener receives a record that is absent from the log at that moment.
C10_OneLogicalStep ==
  /\ [](\A k \in DOMAIN GetRequestLogs : \A i \in DOMAIN listeners :
          GetRequestLogs[k] \in Range(calls[i]))
  /\ [][\A i \in DOMAIN calls :
          calls'[i] # calls[i] => calls'[i][Len(calls'[i])] \in Range(requestLog')]_vars

\* C10 amended: the append comes first and the deliveries follow, outside the
\* log's lock.  A record a listener receives was appended before, and is absent
\* from the log only if maxLogsCap later appends have evicted it; once the
\* invocation has returned normally every registered listener has received it.
C10_AppendThenDeliver ==
  /\ \A i \in DOMAIN calls : \A k \in DOMAIN calls[i] :
       \E c \in DOMAIN captured :
         /\ captured[c] = calls[i][k]
         /\ c > Len(captured) - maxLogsCap => calls[i][k] \in Range(GetRequestLogs)
  /\ \A r \in Reqs : req[r].li > 0 => Recorded(r)
  /\ \A r \in Reqs : req[r].pc = "done" =>
       \A i \in DOMAIN listeners : req[r].logEntry \in Range(calls[i])

\* a listener holds a record that later appends have evicted, while the log
\* holds a record that the listener has not received yet
C10_Witness ==
  \E i \in DOMAIN calls :
    /\ \E k \in DOMAIN calls[i] : calls[i][k] \notin Range(GetRequestLogs)
    /\ \E k \in DOMAIN requestLog : requestLog[k] \notin Range(calls[i])

\* C11 as stated: listeners are invoked in registration order, one after the
\* other, and every completed transaction invokes every registered listener
\* exactly once; AddListener(nil) registers nothing.
C11_EachListenerOnceInOrder ==
  /\ \A i \in DOMAIN listeners : listeners[i] # "nil"
  /\ \A r \in Reqs : Recorded(r) =>
       \A i \in DOMAIN listeners :
         Count(calls[i], req[r].logEntry) = (IF i <= req[r].li THEN 1 ELSE 0)
  /\ \A r \in Reqs : (Finished(r) /\ Recorded(r)) => req[r].li = Len(listeners)

C13_AbortStillRecorded ==
  /\ \A r \in Reqs : Finished(r) =>
       Recorded(r) /\ Count(captured, req[r].logEntry) = 1
  /\ stats.TotalConnections >= Cardinality({r \in Reqs : Finished(r)})

\* C14: in Proxy mode a request whose backend cannot be reached is forwarded
\* once, answered 502, and does not panic in the forward (only a listener can
\* make it panic, after the record); its record carries 502, the gauge is
\* restored when it ends, and a later request with a reachable backend gets 200.
C14_UnreachableBackend ==
  /\ \A r \in Reqs : (config.Mode = "proxy" /\ Served(r)) => req[r].forwards = 1
  /\ \A r \in Reqs :
       (config.Mode = "proxy" /\ Served(r) /\ req[r].in.backend = "unreachable") =>
         /\ req[r].lrw.client.status = 502
         /\ req[r].pc \in {"unwind", "panicked"} =>
              Recorded(r) /\ req[r].li > 0 /\ listeners[req[r].li] = "panic"
         /\ req[r].pc \notin {"stats", "capture"} =>
              Recorded(r) /\ req[r].logEntry.StatusCode = 502
                          /\ req[r].logEntry \in Range(captured)
         /\ Finished(r) => req[r].incs = 1 /\ req[r].decs = 1
         /\ \A q \in Reqs :
              (q > r /\ req[q].pc = "done" /\ req[q].in.backend = "ok") =>
                req[q].lrw.client.status = StatusOK /\ Recorded(q)
  /\ (\A r \in Reqs : req[r].pc \in {"idle", "done", "panicked"}) => GetStatsOpn = 0

\* a request whose backend was unreachable has ended with its 502 record, and
\* the request after it was served 200 by a reachable backend
C14_Witness ==
  /\ config.Mode = "proxy"
  /\ req[1].pc = "done" /\ req[2].pc = "done"
  /\ req[1].in.backend = "unreachable" /\ req[2].in.backend = "ok"
  /\ req[1].logEntry.StatusCode = 502
  /\ req[2].start >= req[1].start
  /\ req[2].logEntry.StatusCode = StatusOK
  /\ GetStatsOpn = 0

\* C15: in Mock mode every served request has status 200, Content-Type
\* application/json and X-TGate-Mode: mock on the client's writer, the reverse
\* proxy was not called and the body was not forwarded, and its record carries 200.
C15_MockAlways200 ==
  \A r \in Reqs : (config.Mode = "mock" /\ Served(r)) =>
    /\ req[r].lrw.client.status = StatusOK
    /\ HeaderGet(req[r].lrw.client.headers, "Content-Type") = "application/json"
    /\ HeaderGet(req[r].lrw.client.headers, "X-TGate-Mode") = "mock"
    /\ req[r].forwards = 0 /\ req[r].fwd = NotRead
    /\ req[r].pc \notin {"stats", "capture"} =>
         /\ Recorded(r)
         /\ req[r].logEntry.StatusCode = StatusOK
         /\ req[r].logEntry.Response.StatusCode = StatusOK
         /\ HeaderGet(req[r].logEntry.Response.Headers, "X-TGate-Mode") = "mock"

\* a GET with a query string, no Content-Type and a body over the capture cap
\* has been answered and recorded in Mock mode
C15_Witness ==
  /\ config.Mode = "mock" /\ req[1].pc = "done"
  /\ req[1].in.method = "GET" /\ req[1].in.path = "/webhook"
  /\ req[1].in.rawQuery # "" /\ "Content-Type" \notin DOMAIN req[1].in.header
  /\ ByteLen(req[1].in.body) = BodyCapBytes
  /\ req[1].logEntry.StatusCode = StatusOK

\* C16: the Mock-mode response body has status "received", the request's method
\* and path, headers = the number of distinct request header names, body_size =
\* the byte length of the captured body, the key query exactly when the raw query
\* string is non-empty, and the key content_type (with the declared value)
\* exactly when the request's Content-Type names a type, i.e. is non-empty.
C16_MockBody ==
  \A r \in Reqs : (config.Mode = "mock" /\ Served(r)) =>
    LET b == req[r].sent
        in == req[r].in
    IN  /\ {"status", "timestamp", "method", "path", "headers", "body_size"} \subseteq DOMAIN b
        /\ DOMAIN b \subseteq {"status", "timestamp", "method", "path", "headers",
                               "body_size", "query", "content_type"}
        /\ b["status"] = "received"
        /\ b["method"] = in.method /\ b["path"] = in.path
        /\ b["headers"] = Cardinality(DOMAIN in.header)
        /\ b["body_size"] = ByteLen(req[r].bodyString)
        /\ b["body_size"] = (IF in.cl < BodyCapBytes THEN ByteLen(in.body) ELSE 0)
        /\ "query" \in DOMAIN b <=> in.rawQuery # ""
        /\ "query" \in DOMAIN b => b["query"] = in.rawQuery
        /\ "content_type" \in DOMAIN b <=>
             ("Content-Type" \in DOMAIN in.header /\ in.header["Content-Type"] # "")
        /\ "content_type" \in DOMAIN b => b["content_type"] = in.header["Content-Type"]

\* a request with a two-byte body, two headers and a query string was echoed
\* with both optional keys
C16_Witness ==
  /\ config.Mode = "mock" /\ Served(1)
  /\ req[1].sent["headers"] = 2 /\ req[1].sent["body_size"] = 2
  /\ {"query", "content_type"} \subseteq DOMAIN req[1].sent

\* a request whose Content-Type header is present but empty was echoed without
\* the key content_type
C16_WitnessEmptyContentType ==
  /\ config.Mode = "mock" /\ Served(1)
  /\ "Content-Type" \in DOMAIN req[1].in.header
  /\ "content_type" \notin DOMAIN req[1].sent

Min(a, b) == IF a <= b THEN a ELSE b

\* C17: between AddRequest calls, after n samples the 1-minute, 5-minute and
\* overall windows are the last min(n,60), min(n,300) and min(n,1000) samples
\* fed, in arrival order.
C17_WindowsHoldLastSamples ==
  tk.add = "idle" =>
    LET n == Len(tk.fed)
    IN  /\ stats = Fed(tk.fed)
        /\ stats.ResponseTimes1m = LastN(tk.fed, Cap1m)
        /\ stats.ResponseTimes5m = LastN(tk.fed, Cap5m)
        /\ stats.Durations = LastN(tk.fed, CapDurations)
        /\ Len(stats.ResponseTimes1m) = Min(n, Cap1m)
        /\ Len(stats.ResponseTimes5m) = Min(n, Cap5m)
        /\ Len(stats.Durations) = Min(n, CapDurations)

\* cap+1 distinct samples were fed to the overall window: it holds cap samples,
\* the first one fed is gone and the second is its oldest
C17_Witness ==
  /\ tk.add = "idle" /\ tk.pattern = "ascending"
  /\ Len(tk.fed) = CapDurations + 1
  /\ Len(stats.Durations) = CapDurations
  /\ tk.fed[1] \notin Range(stats.Durations)
  /\ stats.Durations[1] = tk.fed[2]
  /\ Len(stats.ResponseTimes1m) = Cap1m /\ Len(stats.ResponseTimes5m) = Cap5m

\* ms is value v in milliseconds, v being the element at 0-based index idx of
\* the ascending sort of w: at most idx elements are smaller, more than idx
\* are smaller or equal
IsSortedElementAt(w, idx, ms) ==
  /\ ms.den = Millisecond
  /\ ms.num \in Range(w)
  /\ Cardinality({i \in DOMAIN w : w[i] < ms.num}) <= idx
  /\ Cardinality({i \in DOMAIN w : w[i] <= ms.num}) > idx

\* C18: for a non-empty overall window of n samples GetStats returns as p50 and
\* p90 the elements at index floor(n*50/100) and floor(n*90/100) of the
\* ascending sort of the window, and the stored window keeps its arrival order.
C18_PercentileIndex ==
  /\ \A k \in DOMAIN tk.seen :
       LET w == tk.seen[k].window
           n == Len(w)
       IN  n > 0 =>
             /\ IsSortedElementAt(w, (n * 50) \div 100, tk.seen[k].p50)
             /\ IsSortedElementAt(w, (n * 90) \div 100, tk.seen[k].p90)
  /\ tk.add = "idle" => stats.Durations = LastN(tk.fed, CapDurations)

\* GetStats was called on a window of 11 descending samples: p50 is the 6th
\* smallest, p90 the 10th smallest (not the largest), and the window still is
\* in descending order
C18_Witness ==
  \E k \in DOMAIN tk.seen :
    /\ tk.seen[k].window = Descending(11)
    /\ tk.seen[k].p50 = Ms(6, 1) /\ tk.seen[k].p90 = Ms(10, 1)
    /\ stats.Durations = Descending(11)

\* GetStats on 100 ascending samples: the values at sorted index 50 and 90
C18_WitnessHundred ==
  \E k \in DOMAIN tk.seen :
    /\ tk.seen[k].window = Ascending(100)
    /\ tk.seen[k].p50 = Ms(51, 1) /\ tk.seen[k].p90 = Ms(91, 1)

\* C19 as stated: whatever Tracker operations run in between, Reset included, a
\* later GetStats never returns a smaller total than an earlier one.
C19_TotalNeverDecreases ==
  \A i, j \in DOMAIN tk.seen : i < j => tk.seen[i].ttl <= tk.seen[j].ttl

\* C19 amended: the total never decreases between two GetStats calls with no
\* Reset in between; a Reset sets it back to zero, and outside AddRequest the
\* total is the number of samples fed since the last Reset.
C19_TotalMonotoneBetweenResets ==
  /\ \A i, j \in DOMAIN tk.seen :
       (i < j /\ tk.seen[i].epoch = tk.seen[j].epoch) => tk.seen[i].ttl <= tk.seen[j].ttl
  /\ tk.add = "idle" => stats.TotalConnections = Len(tk.fed)
  /\ \A k \in DOMAIN tk.seen : tk.seen[k].ttl >= 0

\* two GetStats calls after a Reset, with an AddRequest and changes of the open
\* gauge between them: the total went up from one to the other
C19_Witness ==
  /\ Len(tk.seen) = 2
  /\ tk.seen[1].epoch = 1 /\ tk.seen[2].epoch = 1
  /\ tk.seen[1].ttl < tk.seen[2].ttl
  /\ tk.seen[1].opn # tk.seen[2].opn

\* the window lengths and the total of a tracker are in step
InStep(t) ==
  /\ Len(t.ResponseTimes1m) = Min(t.TotalConnections, Cap1m)
  /\ Len(t.ResponseTimes5m) = Min(t.TotalConnections, Cap5m)
  /\ Len(t.Durations) = Min(t.TotalConnections, CapDurations)

\* C20: whenever a GetStats call holds the read lock, the tracker it reads is
\* in step: no AddRequest is part-way through, and the window lengths are
\* min(total,60), min(total,300) and min(total,1000).  The parts of AddRequest's
\* critical section add up to the one step the readers see.
C20_GetStatsSeesWholeUpdates ==
  /\ tk.get = "reading" => (tk.add = "idle" /\ ~tk.mu.w /\ InStep(stats))
  /\ tk.add = "windowed" =>
       AddRequestTrim(stats) = TrackerAddRequest(Fed(tk.fed), tk.d)

\* a GetStats call reads a tracker whose three windows are all past their caps
C20_Witness ==
  /\ tk.get = "reading"
  /\ stats.TotalConnections = CapDurations + 1
  /\ InStep(stats)

\* an AddRequest call is part-way through: the tracker is out of step, and no
\* GetStats call is reading it
C20_WitnessTorn ==
  /\ tk.add = "counted" /\ ~InStep(stats) /\ tk.get = "idle"

\* ms is the arithmetic mean of the samples of w, in milliseconds
IsMeanOf(w, ms) ==
  /\ ms.num = SumRange(w, 1, Len(w))
  /\ ms.den = Len(w) * Millisecond

\* C21: every GetStats result has avg1, avg5, p50, p90 equal to 0 when the
\* window behind it was empty (fresh tracker or after Reset), and otherwise
\* avg1 and avg5 are the means, in milliseconds, of the 1-minute and 5-minute
\* windows as they were at the call.
C21_ZeroOrMean ==
  \A k \in DOMAIN tk.seen :
    LET e == tk.seen[k]
    IN  /\ IF Len(e.w1) = 0 THEN e.rt1 = ZeroMs /\ e.rt1.num = 0
                            ELSE IsMeanOf(e.w1, e.rt1)
        /\ IF Len(e.w5) = 0 THEN e.rt5 = ZeroMs /\ e.rt5.num = 0
                            ELSE IsMeanOf(e.w5, e.rt5)
        /\ Len(e.window) = 0 => e.p50.num = 0 /\ e.p90.num = 0

\* one GetStats call on a window of several unequal samples returned their
\* mean, and a call after a Reset returned zero for all four
C21_Witness ==
  /\ Len(tk.seen) = 2
  /\ Len(tk.seen[1].w1) > 1 /\ tk.seen[1].w1[1] # tk.seen[1].w1[2]
  /\ tk.seen[1].rt1.num > 0 /\ tk.seen[1].rt1.den = Len(tk.seen[1].w1) * Millisecond
  /\ tk.seen[2].epoch = 1 /\ tk.seen[2].w1 = <<>>
  /\ tk.seen[2].rt1.num = 0 /\ tk.seen[2].rt5.num = 0
  /\ tk.seen[2].p50.num = 0 /\ tk.seen[2].p90.num = 0

\* C22: a slice returned by GetRequestLogs held, when it was returned, the log
\* of one instant in insertion order; afterwards it shows what its holder made
\* of it and nothing else (no later capture or eviction changes it), and the
\* log shows what captureRequest made of it and nothing else (no holder's
\* replacing, appending or removing changes it).
C22_SnapshotIsACopy ==
  /\ View(mem.arrays, mem.log) = requestLog
  /\ requestLog = LastN(captured, maxLogsCap)
  /\ \A i \in DOMAIN mem.snaps :
       /\ View(mem.arrays, mem.snaps[i]) = mem.expect[i]
       /\ mem.taken[i] = LastN(Prefix(captured, mem.at[i]), maxLogsCap)
       /\ \A k \in 1..Len(mem.taken[i]) - 1 : mem.taken[i][k] < mem.taken[i][k + 1]

\* a snapshot of two records was taken, two more records were captured and the
\* snapshot's records evicted, and the holder then replaced an element: the
\* snapshot shows the old records but for the replaced one, the log the new ones
C22_Witness ==
  \E i \in DOMAIN mem.snaps :
    /\ mem.taken[i] = <<1, 2>> /\ mem.captures = 4 /\ requestLog = <<3, 4>>
    /\ Forged \in Range(View(mem.arrays, mem.snaps[i]))
    /\ mem.snaps[i].len = 2
    /\ Forged \notin Range(View(mem.arrays, mem.log))

\* C23 as stated: a request whose body read fails part-way, with a declared
\* length under the cap, is still dispatched to the handler and recorded, and
\* the Body captured for its record is empty.
C23_FailedReadEmptyBody ==
  \A r \in Reqs :
    (Served(r) /\ req[r].in.hasBody /\ req[r].in.errAt >= 0
               /\ req[r].in.cl < BodyCapBytes) =>
      /\ req[r].lrw.statusCode # 0
      /\ req[r].bodyString = <<>>
      /\ Recorded(r) => req[r].logEntry.Body = <<>>
      /\ req[r].pc \in {"notify", "ret", "done"} => Recorded(r)

C28_PortXorMock ==
  (cli.pc # "typed" /\ ~cli.args.version /\ ~cli.args.cleanupServe) =>
     LET one == cli.args.hasPort # cli.args.mock
     IN /\ one => (cli.result.err = "" /\ cli.result.cfg # NilConfig)
        /\ ~one => (cli.result.err # "" /\ cli.result.cfg = NilConfig)

\* What config.Parse does instead: the same with "a port argument other than
\* 0" in the place of "a port argument"; a port argument of 0 counts as none.
C28_NonZeroPortXorMock ==
  (cli.pc # "typed" /\ ~cli.args.version /\ ~cli.args.cleanupServe) =>
     LET port == cli.args.hasPort /\ cli.args.port # 0
         one == port # cli.args.mock
     IN /\ one => (cli.result.err = "" /\ cli.result.cfg # NilConfig)
        /\ (port /\ cli.args.mock) =>
             (cli.result.err = "cannot specify both port and --mock flag"
              /\ cli.result.cfg = NilConfig)
        /\ (~port /\ ~cli.args.mock) =>
             (cli.result.err = "port argument is required"
              /\ cli.result.cfg = NilConfig)

\* a port with --mock was refused
C28_Witness ==
  /\ cli.pc = "parsed" /\ ~cli.args.version /\ ~cli.args.cleanupServe
  /\ cli.args.hasPort /\ cli.args.port = 8080 /\ cli.args.mock
  /\ cli.result.err = "cannot specify both port and --mock flag"

\* a port alone was accepted
C28_WitnessAccepted ==
  /\ cli.pc = "parsed" /\ ~cli.args.version /\ ~cli.args.cleanupServe
  /\ cli.args.hasPort /\ cli.args.port = 8080 /\ ~cli.args.mock
  /\ cli.result.err = "" /\ cli.result.cfg.Port = 8080

\* C29: a configuration config.Parse returns for a run has Mock => Funnel and
\* Funnel => UseHTTPS; with Funnel on and --serve-port unset GetServePort is
\* 443, SetupServe settles on port 443 with TLS, and its error is never
\* "funnel requires HTTPS on port 443".
C29_FunnelImpliesHTTPS443 ==
  (cli.pc # "typed" /\ cli.result.err = "" /\ IsRun(cli.result.cfg)) =>
     LET c == cli.result.cfg
     IN /\ c.Mock => c.Funnel
        /\ c.Funnel => c.UseHTTPS
        /\ (c.Funnel /\ cli.args.servePort = 0) =>
             /\ GetServePort(c) = 443
             /\ SelectPort(TsConfigOf(c)) = [srvPort |-> 443, useTLS |-> TRUE]
             /\ \A i \in 1..Len(gwlog) :
                  /\ gwlog[i].err # "funnel requires HTTPS on port 443"
                  /\ gwlog[i].err = "" =>
                       gwlog[i].info = [ServePort |-> 443, IsFunnel |-> TRUE, IsHTTPS |-> TRUE]

\* --mock alone: funnel and HTTPS were switched on and SetupServe put the
\* proxy on port 443 with funnel
C29_Witness ==
  /\ cli.pc = "served"
  /\ cli.args.mock /\ ~cli.args.funnel /\ ~cli.args.useHTTPS /\ cli.args.servePort = 0
  /\ Len(gwlog) = 1 /\ gwlog[1].err = ""
  /\ 443 \in gw.sc.funnel

\* C27: Cleanup and CleanupAll on an absent or empty serve configuration
\* return nil when every daemon call they make is answered (and Cleanup also
\* when its GetServeConfig fails), and leave it absent or empty; and either of
\* them called twice in a row, the daemon answering, leaves the daemon's serve
\* configuration as one call left it.
C27_CleanupIdempotent ==
  /\ \A i \in 1..Len(gwlog) :
       LET k == gwlog[i]
       IN (k.op \in {"Cleanup", "CleanupAll"} /\ NothingRegistered(k.before.sc)) =>
            /\ k.failAt = 0 => k.err = ""
            /\ (k.op = "Cleanup" /\ (k.failAt = 1 \/ k.before.sc.nil)) =>
                 (k.err = "" /\ k.after = k.before)
            /\ k.after.sc \in {NilSc, EmptySc}
  /\ \A i \in 1..(Len(gwlog) - 1) :
       LET k == gwlog[i]
           l == gwlog[i + 1]
       IN (k.op \in {"Cleanup", "CleanupAll"} /\ l.op = k.op
             /\ k.failAt = 0 /\ l.failAt = 0) =>
            (l.err = "" /\ l.after.sc = k.after.sc)
  /\ \A f \in {0} :
       /\ Cleanup(Cleanup(gw, f).gw, f).gw.sc = Cleanup(gw, f).gw.sc
       /\ CleanupAll(CleanupAll(gw, f).gw, f).gw.sc = CleanupAll(gw, f).gw.sc

\* Cleanup twice on a daemon that held another program's handler: the first
\* call emptied the configuration, the second returned nil and left it empty
C27_Witness ==
  /\ Len(gwlog) = 2
  /\ gwlog[1].op = "Cleanup" /\ gwlog[2].op = "Cleanup"
  /\ gwlog[1].before.sc = OtherWeb
  /\ gwlog[1].err = "" /\ gwlog[2].err = ""
  /\ gwlog[1].after.sc = EmptySc /\ gw.sc = EmptySc

\* CleanupAll twice on an absent configuration, nil both times
C27_WitnessAbsent ==
  /\ Len(gwlog) = 2
  /\ gwlog[1].op = "CleanupAll" /\ gwlog[2].op = "CleanupAll"
  /\ gwlog[1].before.sc = NilSc
  /\ gwlog[1].err = "" /\ gwlog[2].err = ""
  /\ gw.sc = EmptySc

\* C30: a SetupServe that returns an error has applied nothing, the daemon's
\* serve configuration being what it was before the call; one that returns a
\* ServiceInfo has applied a configuration exactly once.
C30_ErrorAppliesNothing ==
  \A i \in 1..Len(gwlog) :
    LET k == gwlog[i]
    IN k.op = "SetupServe" =>
         /\ k.err # "" => (k.after = k.before /\ k.info = NilInfo)
         /\ k.err = "" =>
              /\ k.info # NilInfo
              /\ k.after.sets = k.before.sets + 1
              /\ \E w \in k.after.sc.web :
                   w.target = "proxy" /\ w.port = k.info.ServePort

\* funnel asked for without the HTTPS capability: an error and nothing
\* applied; then the same without funnel: a ServiceInfo and one application
C30_Witness ==
  /\ Len(gwlog) = 2
  /\ gwlog[1].op = "SetupServe" /\ gwlog[2].op = "SetupServe"
  /\ gwlog[1].config.EnableFunnel
  /\ gwlog[1].err = "HTTPS certificates not enabled"
  /\ gwlog[1].after = gwlog[1].before
  /\ gwlog[2].err = "" /\ gw.sets = 1

\* each error SetupServe can return was returned
C30_WitnessForwarding ==
  \E i \in 1..Len(gwlog) :
    gwlog[i].op = "SetupServe" /\ gwlog[i].err = "port is already serving TCP"

\* C25: when set-up on the local-Tailscale path has reported a failure, no
\* serve configuration this process created is registered with the daemon, and
\* no local server it started is running without a cleanup function returned
\* for it.
C25_NoPartialStart ==
  (boot.setupPc = "failed" /\ boot.mainPc = "tui") =>
     /\ OwnHandlers(gw.sc) = {}
     /\ boot.proxyUp => boot.retCleanup = "set"
     /\ boot.uiUp => boot.retUi = "set"

\* C26: when the process stops after an exit through the TUI, whatever the
\* interleaving with the set-up goroutine, no serve configuration this process
\* registered is left with the daemon and its local servers have been shut
\* down.
C26_ExitCleansUp ==
  boot.mainPc = "stopped" =>
     /\ OwnHandlers(gw.sc) = {}
     /\ ~boot.proxyUp
     /\ ~boot.uiUp

C31_WitnessAfterPanic ==
  /\ GetStatsOpn = 1
  /\ \E r \in Reqs : req[r].pc = "panicked"
  /\ \E r \in Reqs : req[r].pc \in {"serve", "stats", "capture", "notify", "ret"}

\* C32: within one request the statistics sample is added, then the record is
\* appended to the log, then the listeners are invoked, then the open gauge is
\* decremented.  So the number of records ever appended is at most the
\* statistics total, and while a listener runs for a transaction GetStats
\* already counts the transaction in the total and still counts its request as
\* open.
Sampled(r) == req[r].pc \in {"capture", "notify", "ret", "done"} \/ Recorded(r)
Notified(r) == \E i \in 1..Len(calls) : req[r].logEntry \in Range(calls[i])
C32_StatsThenLogThenListeners ==
  /\ \A r \in Reqs :
       /\ Recorded(r) => Sampled(r)
       /\ Notified(r) => Recorded(r)
       /\ req[r].decs = 1 => Finished(r)
       /\ (Recorded(r) /\ req[r].pc \in {"capture", "stats", "serve", "inc", "idle"}) => FALSE
       /\ (req[r].pc = "notify" \/ (Notified(r) /\ ~Finished(r))) =>
            /\ Recorded(r) /\ req[r].logEntry \in Range(captured)
            /\ req[r].incs = 1 /\ req[r].decs = 0
            /\ GetStatsOpn >= 1
            /\ stats.TotalConnections >= 1
  /\ stats.TotalConnections = Cardinality({r \in Reqs : Sampled(r)})
  /\ Len(captured) = Cardinality({r \in Reqs : Recorded(r)})
  /\ Len(captured) <= stats.TotalConnections

\* the steps of one request follow one another in the claimed order
C32_StepOrder ==
  [][\A r \in Reqs :
       /\ (Recorded(r)' /\ ~Recorded(r)) => (Sampled(r) /\ ~Notified(r) /\ req[r].decs = 0)
       /\ (Notified(r)' /\ ~Notified(r)) => (Recorded(r) /\ req[r].decs = 0)
       /\ (req[r].decs' = 1 /\ req[r].decs = 0) =>
            (req[r].pc \in {"ret", "unwind"})]_vars

\* a listener has run for one transaction while the sample of another is in
\* the statistics and its record not yet in the log
C32_Witness ==
  /\ \E r \in Reqs : req[r].pc = "notify" /\ req[r].li = 1 /\ Notified(r)
  /\ \E r \in Reqs : req[r].pc = "capture"
  /\ stats.TotalConnections = 2 /\ Len(captured) = 1 /\ GetStatsOpn = 2

\* C33: no ServeHTTP invocation holds logMutex and the Tracker's mu at once,
\* and a listener is called with neither held; no interleaving of handlers,
\* snapshot readers and Reset stops with a goroutine inside a call; and every
\* invocation, its listener calling GetRequestLogs and GetStats, returns.
InCall(p) == lk.pc[p] \notin {"idle", "done"}
C33_LockInv ==
  /\ \A p \in Goroutines : ~(Holds(lk.logMutex, p) /\ Holds(lk.mu, p))
  /\ \A p \in Handlers :
       lk.pc[p] \in {"notify", "listening"} =>
         (~Holds(lk.logMutex, p) /\ ~Holds(lk.mu, p))
  /\ (\E p \in Goroutines : InCall(p)) => \E p \in Goroutines : InCall(p) /\ ENABLED Step(p)
C33_NoDeadlock ==
  /\ []C33_LockInv
  /\ \A p \in Handlers : (lk.pc[p] = "incWait") ~> (lk.pc[p] = "done")
  /\ \A p \in Handlers : (lk.pc[p] = "notify") ~> (lk.pc[p] = "decWait")

\* a listener is reading the log inside GetRequestLogs while another
\* invocation waits in captureRequest for logMutex and the reader holds mu
C33_Witness ==
  /\ \E p \in Handlers : lk.pc[p] = "logsHeld"
  /\ \E p \in Handlers : lk.pc[p] = "capWait"
  /\ lk.pc[Reader] = "statsHeld"

\* C35: the open gauge GetStats reports is never negative, whatever the
\* interleaving of ServeHTTP invocations with Tracker.Reset.
C35_GaugeNeverNegative == GetStatsOpn >= 0

\* C34 (lemma): the fields a record holds by value are out of the reach of
\* those it was handed to: what the log stores keeps the id and the status
\* it was built with.
C34_ValueFieldsImmutable ==
  \A i \in DOMAIN maps.log :
    /\ maps.log[i].StatusCode = maps.built[maps.log[i].ID].StatusCode
    /\ maps.log[i].ID \in DOMAIN maps.built

\* C34: a record is immutable once built: whatever the listeners and the
\* callers of GetRequestLogs do to the records they hold, the record in the
\* log reads as it was built.
C34_RecordsImmutable ==
  \A i \in DOMAIN maps.log :
    Deref(maps.heap, maps.log[i]) = maps.built[maps.log[i].ID]

\* C36: whatever calls of WriteHeader and Write the handler made, the status
\* in the record is the status the underlying writer sent to the client (the
\* code of the first WriteHeader, or 200 when a Write came first).
C36_RecordedStatusIsSentStatus ==
  (wr.pc = "recorded" /\ wr.lrw.client.status # 0) =>
    wr.record.StatusCode = wr.lrw.client.status

\* C36 (lemma): with at most one WriteHeader, and none after a Write, the
\* record has the status sent.
C36_SingleWriteHeader ==
  (wr.pc = "recorded" /\ wr.lrw.client.status # 0 /\ wr.headerCalls = 0) =>
    wr.record.StatusCode = wr.lrw.client.status

\* C37: Cleanup removes only what this session registered and leaves every
\* other entry of the daemon's serve configuration as it was: the web
\* handlers and the TCP forwardings of other programs that were there before
\* a Cleanup are there after it.
C37_CleanupRemovesOnlyOwn ==
  \A i \in 1..Len(gwlog) :
    LET k == gwlog[i]
    IN k.op = "Cleanup" =>
         /\ (k.before.sc.web \ OwnHandlers(k.before.sc)) \subseteq k.after.sc.web
         /\ {t \in k.before.sc.tcp : t.kind = "forward"} \subseteq k.after.sc.tcp

\* C37 (lemma): a Cleanup the daemon answers leaves none of this session's
\* handlers behind.
C37_CleanupRemovesOwn ==
  \A i \in 1..Len(gwlog) :
    LET k == gwlog[i]
    IN (k.op = "Cleanup" /\ k.failAt = 0 /\ ~k.before.sc.nil) =>
         OwnHandlers(k.after.sc) = {}

\* C38: WaitForServerReady never polls after the deadline: no dial is begun
\* once the timeout has elapsed.
C38_NoPollAfterDeadline == ~probe.late

\* C38 (lemma): nil is returned only after a dial connected, and the error
\* only when the context had ended.
C38_ResultsJustified ==
  /\ probe.result = "nil" => (probe.connected /\ probe.up)
  /\ probe.result = "error" => (CtxDone(probe) /\ ~probe.connected)
  /\ probe.pc = "returned" <=> probe.result # ""

\* C38 (lemma): the call returns, select not passing over the ended context
\* for ever.
C38_Terminates == <>(probe.pc = "returned")

\* C39: after any messages the TUI's history holds at most 1000 lines, the
\* most recent ones in arrival order, the window size known or not; lastRequest
\* is the request of the latest RequestMsg; and the q and ctrl+c keys yield
\* the quit command.
C39_TuiModel ==
  LET n == ui.logMsgs
      kept == Min(n, AppLogCap)
  IN  /\ Len(ui.appLogLines) <= AppLogCap
      /\ ui.appLogLines = [i \in 1..kept |-> FormatLogLine(LogMsgNo(n - kept + i))]
      /\ ui.lastRequest = ui.arrived
      /\ ui.requestMsgs = 0 <=> ui.lastRequest = 0
      /\ ui.last \in {"q", "ctrl+c"} <=> ui.cmd = "quit"
      /\ ui.cmd = "quit" <=> ui.pc = "quit"
\* the request pane follows the messages: a RequestMsg leaves its own record
\* in lastRequest, and no other message changes lastRequest
C39_LastRequestFollows ==
  [][/\ \A id \in 1..MaxRequests : TuiRequest(id) => ui'.lastRequest = id
     /\ ui'.requestMsgs = ui.requestMsgs => ui'.lastRequest = ui.lastRequest]_vars

\* the history overflowed before the window size was known, a second request
\* replaced the first, and q was pressed
C39_Witness ==
  /\ ui.logMsgs > AppLogCap /\ Len(ui.appLogLines) = AppLogCap
  /\ ~ui.ready
  /\ ui.requestMsgs = 2 /\ ui.lastRequest = 1
  /\ ui.last = "q" /\ ui.cmd = "quit"

\* C40: any two records the AccessLog middleware produces carry distinct ids,
\* also when they are made in the same second or at the same clock reading.
C40_DistinctIds ==
  \A i, j \in DOMAIN al.built : i # j => al.built[i].ID # al.built[j].ID

\* C40 (lemma): the callback is called once for a request, with its record,
\* when the wrapped handler has returned, and never otherwise; a nil callback
\* is never called and the request ends all the same.
C40_CallbackOncePerRequest ==
  \A r \in Reqs :
    LET n == Cardinality({i \in DOMAIN al.delivered : al.delivered[i].req = r})
    IN  /\ n = IF al.pc[r] = "done" /\ al.callback # "nil" THEN 1 ELSE 0
        /\ al.pc[r] = "done" <=> \E i \in DOMAIN al.built : al.built[i].req = r

====
